---------------------------- MODULE Spec2Model ----------------------------
(***************************************************************************)
(* pkroam: a custodial transfer tool for generation-3 save files.          *)
(*                                                                         *)
(* The model covers the save-file engine (pkroam/src/save.rs), the pk3     *)
(* codec (src/pokemon.rs), the roam store (pkroam-backend/src/database)    *)
(* and the transfer handlers (pkroam-backend/src/cli_handlers.rs).         *)
(*                                                                         *)
(* A save image is a byte vector of 128 KiB.  It is represented sparsely:  *)
(* a File is [len, bytes] where bytes maps exactly the offsets that hold a *)
(* non-zero byte to that byte; every other offset below len reads 0x00.    *)
(* All offsets and sizes are the ones of the source.                       *)
(***************************************************************************)
EXTENDS Integers, Sequences, FiniteSets, TLC

(***************************************************************************)
(* Layout constants of the source.                                         *)
(***************************************************************************)
GAME_SAVE_DATA_LENGTH == 131072
SAVE_INDEX_OFFSET == 4092
SAVE_A_OFFSET == 0
SAVE_B_OFFSET == 57344
SECTION_SIZE == 4096
SECTION_DATA_SIZE == 3968
SECTION_CHECKSUM_OFFSET == 4086
SECTION_ID_OFFSET == 4084
NUMBER_OF_SECTIONS == 14
PK3_SIZE_BOX == 80
SUBSTRUCTURE_OFFSET == 32
COMPONENT_SIZE == 12
LANGUAGE_OFFSET == 18
GENDER_OFFSET == 8
GAME_CODE_OFFSET == 172

GameCodes == {"RubySapphire", "FireRedLeafGreen", "Emerald"}

(***************************************************************************)
(* Bytes.                                                                  *)
(***************************************************************************)
RECURSIVE Xor(_, _)
\* a ^ b on unsigned integers
Xor(a, b) ==
    IF a = 0 THEN b
    ELSE IF b = 0 THEN a
    ELSE (((a % 2) + (b % 2)) % 2) + 2 * Xor(a \div 2, b \div 2)

RECURSIVE Pow2(_)
Pow2(n) ==
    IF n = 0 THEN 1 ELSE 2 * Pow2(n - 1)

\* byte | (1 << bit)
OrBit(byte, bit) ==
    IF (byte \div Pow2(bit)) % 2 = 1 THEN byte ELSE byte + Pow2(bit)

\* read_u16::<LittleEndian> of a two-byte sequence position
U16LE(s, i) ==
    s[i] + 256 * s[i + 1]

\* read_u32::<LittleEndian>; the creatures of the model keep the top byte
\* below 0x80, so the value stays inside TLC's integers
U32LE(s, i) ==
    s[i] + 256 * s[i + 1] + 65536 * s[i + 2] + 16777216 * s[i + 3]

Zeros(n) ==
    [i \in 1..n |-> 0]

(***************************************************************************)
(* Sparse byte vectors.                                                    *)
(***************************************************************************)
\* full_contents[o]
At(m, o) ==
    IF o \in DOMAIN m THEN m[o] ELSE 0

\* full_contents[start .. start + n], as a sequence indexed from 1
Slice(m, start, n) ==
    [i \in 1..n |-> At(m, start + i - 1)]

\* full_contents[start .. start + Len(data)].copy_from_slice(data)
CopyFromSlice(m, start, data) ==
    LET rng == start..(start + Len(data) - 1)
        nz  == {o \in rng : data[o - start + 1] # 0}
    IN  [o \in (DOMAIN m \ rng) \cup nz |->
            IF o \in rng THEN data[o - start + 1] ELSE m[o]]

\* slice.iter().any(|byte| *byte != 0x00)
AnyNonZero(m, start, n) ==
    \E o \in DOMAIN m : o >= start /\ o < start + n

(***************************************************************************)
(* The pk3 codec.                                                          *)
(***************************************************************************)
\* an XOR that runs to the end of the buffer instead of stopping at byte 80
encrypt_decrypt_pk3_to_end(pk3_data) ==
    [i \in 1..Len(pk3_data) |->
        IF i > 32
        THEN Xor(pk3_data[i],
                 Xor(pk3_data[1 + ((i - 33) % 4)], pk3_data[5 + ((i - 33) % 4)]))
        ELSE pk3_data[i]]

\* XOR of the 48-byte data region with the little-endian bytes of
\* personality_value ^ original_trainer_id; byte j of that key is
\* pk3[j] ^ pk3[4 + j]
encrypt_decrypt_pk3(pk3_data) ==
    [i \in 1..Len(pk3_data) |->
        IF i > 32 /\ i <= 80
        THEN Xor(pk3_data[i],
                 Xor(pk3_data[1 + ((i - 33) % 4)], pk3_data[5 + ((i - 33) % 4)]))
        ELSE pk3_data[i]]

\* personality_value % 24, computed byte-wise
PersonalityMod24(data) ==
    (data[1] + 16 * data[2] + 16 * data[3] + 16 * data[4]) % 24

\* offset of the Growth substructure for personality_value % 24
GrowthOffset(pm) ==
    IF pm \in 0..5 THEN 0
    ELSE IF pm \in {6, 7, 12, 13, 18, 19} THEN COMPONENT_SIZE
    ELSE IF pm \in {8, 10, 14, 16, 20, 22} THEN COMPONENT_SIZE * 2
    ELSE COMPONENT_SIZE * 3

LanguageOk(b) ==
    b \in {1, 2, 3, 4, 5, 7}

\* Pokemon::from_pk3: decrypts into source_data and parses the fields; the
\* only failing step on a full-length record is the language byte
from_pk3(pk3) ==
    LET source_data == encrypt_decrypt_pk3(pk3)
    IN  IF ~LanguageOk(source_data[LANGUAGE_OFFSET + 1])
        THEN [ok |-> FALSE]
        ELSE [ok |-> TRUE,
              source_data |-> source_data,
              personality_value |-> U32LE(source_data, 1),
              public_id |-> U16LE(source_data, 5),
              secret_id |-> U16LE(source_data, 7),
              species |-> U16LE(source_data,
                  SUBSTRUCTURE_OFFSET + GrowthOffset(PersonalityMod24(source_data)) + 1)]

\* a to_pk3 that forgets to encrypt again
to_pk3_plain(pokemon) ==
    pokemon.source_data

\* Pokemon::to_pk3: re-encrypts source_data
to_pk3(pokemon) ==
    encrypt_decrypt_pk3(pokemon.source_data)

(***************************************************************************)
(* SaveFile (pkroam/src/save.rs).  A SaveFile value is                     *)
(*   [full_contents, len, latest_save_offset, section_rotation, game_code] *)
(* where full_contents is the sparse byte vector and len its length.       *)
(***************************************************************************)
\* the little-endian u32 at offset o, as <<high 16 bits, low 16 bits>>
U32At(m, o) ==
    <<At(m, o + 2) + 256 * At(m, o + 3), At(m, o) + 256 * At(m, o + 1)>>

IsAllOnes(w) ==
    w = <<65535, 65535>>

\* a > b on u32 values held as <<high, low>>
U32Greater(a, b) ==
    a[1] > b[1] \/ (a[1] = b[1] /\ a[2] > b[2])

\* a selection by the larger index alone, blind to the empty marker
determine_latest_game_save_offset_by_max(save_data) ==
    LET save_index_a == U32At(save_data, SAVE_A_OFFSET + SAVE_INDEX_OFFSET)
        save_index_b == U32At(save_data, SAVE_B_OFFSET + SAVE_INDEX_OFFSET)
    IN  IF U32Greater(save_index_a, save_index_b) THEN SAVE_A_OFFSET
        ELSE SAVE_B_OFFSET

determine_latest_game_save_offset(save_data) ==
    LET save_index_a == U32At(save_data, SAVE_A_OFFSET + SAVE_INDEX_OFFSET)
        save_index_b == U32At(save_data, SAVE_B_OFFSET + SAVE_INDEX_OFFSET)
    IN  IF IsAllOnes(save_index_a) THEN SAVE_B_OFFSET
        ELSE IF IsAllOnes(save_index_b) \/ U32Greater(save_index_a, save_index_b)
             THEN SAVE_A_OFFSET
        ELSE SAVE_B_OFFSET

\* the u16 section id of the first physical section, truncated to u8; the
\* images of the model carry ids 0..13 there, so the u8 subtraction is exact
determine_section_rotation(save_offset, save_data) ==
    LET section_id == At(save_data, save_offset + SECTION_ID_OFFSET)
    IN  (NUMBER_OF_SECTIONS - section_id) % NUMBER_OF_SECTIONS

determine_game_code(data) ==
    IF data = <<0, 0>> THEN "RubySapphire"
    ELSE IF data = <<0, 1>> THEN "FireRedLeafGreen"
    ELSE "Emerald"

get_offset_for_section(save, section_id) ==
    save.latest_save_offset
        + SECTION_SIZE * ((section_id + save.section_rotation) % NUMBER_OF_SECTIONS)

\* SaveFile::new on the bytes of the file at the save path: [ok, save]
SaveFile_new(file) ==
    IF file.len < GAME_SAVE_DATA_LENGTH THEN [ok |-> FALSE]
    ELSE
      LET latest_save_offset == determine_latest_game_save_offset(file.bytes)
          section_rotation ==
              determine_section_rotation(latest_save_offset, file.bytes)
          raw == [full_contents |-> file.bytes, len |-> file.len,
                  latest_save_offset |-> latest_save_offset,
                  section_rotation |-> section_rotation]
          section_offset == get_offset_for_section(raw, 0)
          gender == At(file.bytes, section_offset + GENDER_OFFSET)
          game_code ==
              determine_game_code(U32At(file.bytes, section_offset + GAME_CODE_OFFSET))
      IN  IF gender \notin {0, 1} THEN [ok |-> FALSE]
          ELSE [ok |-> TRUE,
                save |-> [full_contents |-> file.bytes, len |-> file.len,
                          latest_save_offset |-> latest_save_offset,
                          section_rotation |-> section_rotation,
                          game_code |-> game_code]]

\* [ok, section_id, offset]; ok = FALSE is the None the callers unwrap
compute_section_id_and_offset_for_box_slot(box_number, box_entry) ==
    IF ~(box_number \in 1..16) \/ ~(box_entry \in 1..30)
    THEN [ok |-> FALSE]
    ELSE LET absolute_entry == ((box_number - 1) * 30) + (box_entry - 1)
             absolute_offset == (absolute_entry * PK3_SIZE_BOX) + 4
         IN  [ok |-> TRUE,
              section_id |-> 5 + (absolute_offset \div SECTION_DATA_SIZE),
              offset |-> absolute_offset % SECTION_DATA_SIZE]

\* the u32 sum of the section's 992 little-endian words, folded to u16; the
\* sum is kept as a low and a high 16-bit column so that it never leaves
\* TLC's integers
\* the column sum of the bytes at the offsets of S
RECURSIVE ColumnSumOf(_, _, _, _)
ColumnSumOf(m, S, base, high) ==
    IF S = {} THEN 0
    ELSE LET o == CHOOSE x \in S : TRUE
             k == (o - base) % 4
             v == IF high
                  THEN (IF k = 2 THEN m[o] ELSE IF k = 3 THEN 256 * m[o] ELSE 0)
                  ELSE (IF k = 0 THEN m[o] ELSE IF k = 1 THEN 256 * m[o] ELSE 0)
         IN  v + ColumnSumOf(m, S \ {o}, base, high)

\* a set of more than 64 offsets within lo..(hi - 1) is summed by halves, so
\* that the depth of the sum does not grow with the number of bytes
RECURSIVE ColumnSumIn(_, _, _, _, _, _)
ColumnSumIn(m, S, base, high, lo, hi) ==
    IF Cardinality(S) <= 64 THEN ColumnSumOf(m, S, base, high)
    ELSE LET mid == (lo + hi) \div 2
             L == S \cap (lo..(mid - 1))
         IN  ColumnSumIn(m, L, base, high, lo, mid)
             + ColumnSumIn(m, S \ L, base, high, mid, hi)

ColumnSum(m, S, base, high) ==
    ColumnSumIn(m, S, base, high, base, base + SECTION_DATA_SIZE)

compute_section_checksum(m, section_offset) ==
    LET S == {o \in DOMAIN m :
                 o >= section_offset /\ o < section_offset + SECTION_DATA_SIZE}
        lo == ColumnSum(m, S, section_offset, FALSE)
        hi == ColumnSum(m, S, section_offset, TRUE)
        checksum_lower == lo % 65536
        checksum_upper == (hi + (lo \div 65536)) % 65536
    IN  (checksum_upper + checksum_lower) % 65536

\* a recompute_checksums that leaves the trailers as they are
recompute_checksums_skipped(save) ==
    save

\* recompute_checksums: the loop over the 14 sections writes each section's
\* checksum into its trailer.  A trailer lies outside every data area, so
\* the 14 iterations do not read what another one wrote and are taken
\* together here
recompute_checksums(save) ==
    LET m == save.full_contents
        base == save.latest_save_offset
        data == [o \in {x \in DOMAIN m :
                           /\ x >= base
                           /\ x < base + NUMBER_OF_SECTIONS * SECTION_SIZE
                           /\ (x - base) % SECTION_SIZE < SECTION_DATA_SIZE} |-> m[o]]
        checksum == [k \in 0..(NUMBER_OF_SECTIONS - 1) |->
                        compute_section_checksum(data, base + k * SECTION_SIZE)]
        low == {base + k * SECTION_SIZE + SECTION_CHECKSUM_OFFSET :
                   k \in 0..(NUMBER_OF_SECTIONS - 1)}
        checksum_bytes == low \cup {o + 1 : o \in low}
        byteOf(o) ==
            IF o \in low THEN checksum[(o - base) \div SECTION_SIZE] % 256
            ELSE checksum[(o - base) \div SECTION_SIZE] \div 256
        nz == {o \in checksum_bytes : byteOf(o) # 0}
    IN  [save EXCEPT !.full_contents =
            [o \in (DOMAIN m \ checksum_bytes) \cup nz |->
                IF o \in nz THEN byteOf(o) ELSE m[o]]]

\* verify_sections: TRUE iff every stored checksum equals the computed one
verify_sections(save) ==
    \A section_id \in 0..(NUMBER_OF_SECTIONS - 1) :
        LET section_offset == get_offset_for_section(save, section_id)
        IN  compute_section_checksum(save.full_contents, section_offset)
              = At(save.full_contents, section_offset + SECTION_CHECKSUM_OFFSET)
                + 256 * At(save.full_contents, section_offset + SECTION_CHECKSUM_OFFSET + 1)

\* the 80 bytes of a box slot, read in one piece or, for a slot that
\* straddles two sections, from the tail of its section and the head of
\* section (section_id + 1) % 14
read_box_slot(save, section_id, relative_offset) ==
    LET section_offset == get_offset_for_section(save, section_id)
    IN  IF relative_offset + PK3_SIZE_BOX > SECTION_DATA_SIZE
        THEN LET bytes_from_first_section == SECTION_DATA_SIZE - relative_offset
                 bytes_from_next_section == PK3_SIZE_BOX - bytes_from_first_section
                 next_section_id == (section_id + 1) % NUMBER_OF_SECTIONS
                 next_offset == get_offset_for_section(save, next_section_id)
             IN  Slice(save.full_contents, section_offset + relative_offset,
                       bytes_from_first_section)
                   \o Slice(save.full_contents, next_offset, bytes_from_next_section)
        ELSE Slice(save.full_contents, section_offset + relative_offset, PK3_SIZE_BOX)

\* a get_pokemon_from_box whose slot index is off by one
get_pokemon_from_box_off_by_one(save, box_number, slot_number) ==
    LET loc == compute_section_id_and_offset_for_box_slot(box_number, slot_number + 1)
    IN  IF ~loc.ok THEN [kind |-> "Panic"]
        ELSE LET pk3_data == read_box_slot(save, loc.section_id, loc.offset)
             IN  IF \E i \in 1..PK3_SIZE_BOX : pk3_data[i] # 0
                 THEN LET pkmn == from_pk3(pk3_data)
                      IN  IF pkmn.ok THEN [kind |-> "Some", pokemon |-> pkmn]
                          ELSE [kind |-> "Err"]
                 ELSE [kind |-> "None"]

\* [kind, pokemon]: kind is "Some", "None", "Err" (the record does not parse)
\* or "Panic" (unwrap of an out-of-range position)
get_pokemon_from_box(save, box_number, slot_number) ==
    LET loc == compute_section_id_and_offset_for_box_slot(box_number, slot_number)
    IN  IF ~loc.ok THEN [kind |-> "Panic"]
        ELSE LET pk3_data == read_box_slot(save, loc.section_id, loc.offset)
             IN  IF \E i \in 1..PK3_SIZE_BOX : pk3_data[i] # 0
                 THEN LET pkmn == from_pk3(pk3_data)
                      IN  IF pkmn.ok THEN [kind |-> "Some", pokemon |-> pkmn]
                          ELSE [kind |-> "Err"]
                 ELSE [kind |-> "None"]

pokedex_owned(game_code) ==
    40

pokedex_seen_a(game_code) ==
    92

pokedex_seen_b(game_code) ==
    IF game_code = "RubySapphire" THEN 2360
    ELSE IF game_code = "Emerald" THEN 2440
    ELSE 1528

pokedex_seen_c(game_code) ==
    IF game_code = "RubySapphire" THEN 3084
    ELSE IF game_code = "Emerald" THEN 3236
    ELSE 2968

\* Species::national_dex_number: [ok, n]
national_dex_number(species) ==
    IF species \in 1..386 THEN [ok |-> TRUE, n |-> species] ELSE [ok |-> FALSE]

\* current_byte |= 1 << bit_position at one bitmap offset
SetDexBit(m, offset, bit_position) ==
    CopyFromSlice(m, offset, <<OrBit(At(m, offset), bit_position)>>)

\* [ok, save]
mark_pokemon_owned_in_dex(save, species) ==
    LET dex == national_dex_number(species)
    IN  IF ~dex.ok THEN [ok |-> FALSE, save |-> save]
        ELSE
          LET byte_number == (dex.n - 1) \div 8
              bit_position == (dex.n - 1) % 8
              pokedex_owned_offset ==
                  get_offset_for_section(save, 0) + pokedex_owned(save.game_code)
              pokedex_seen_a_offset ==
                  get_offset_for_section(save, 0) + pokedex_seen_a(save.game_code)
              pokedex_seen_b_offset ==
                  get_offset_for_section(save, 1) + pokedex_seen_b(save.game_code)
              pokedex_seen_c_offset ==
                  get_offset_for_section(save, 4) + pokedex_seen_c(save.game_code)
              m1 == SetDexBit(save.full_contents,
                              pokedex_owned_offset + byte_number, bit_position)
              m2 == SetDexBit(m1, pokedex_seen_a_offset + byte_number, bit_position)
              m3 == SetDexBit(m2, pokedex_seen_b_offset + byte_number, bit_position)
              m4 == SetDexBit(m3, pokedex_seen_c_offset + byte_number, bit_position)
          IN  [ok |-> TRUE, save |-> [save EXCEPT !.full_contents = m4]]

\* pokemon_present of put_pokemon_in_box: for a straddling slot the second
\* range starts at section_offset, the start of the slot's own section
pokemon_present(save, section_id, relative_offset) ==
    LET section_offset == get_offset_for_section(save, section_id)
    IN  IF relative_offset + PK3_SIZE_BOX > SECTION_DATA_SIZE
        THEN LET bytes_from_first_section == SECTION_DATA_SIZE - relative_offset
                 bytes_from_next_section == PK3_SIZE_BOX - bytes_from_first_section
             IN  AnyNonZero(save.full_contents, section_offset + relative_offset,
                            bytes_from_first_section)
                 \/ AnyNonZero(save.full_contents, section_offset,
                               bytes_from_next_section)
        ELSE AnyNonZero(save.full_contents, section_offset + relative_offset,
                        PK3_SIZE_BOX)

\* a write_box_slot that puts the second piece of a straddling slot into
\* the section that follows physically
write_box_slot_adjacent(save, section_id, relative_offset, pk3_data) ==
    LET section_offset == get_offset_for_section(save, section_id)
        bytes_from_first_section == SECTION_DATA_SIZE - relative_offset
    IN  IF relative_offset + PK3_SIZE_BOX > SECTION_DATA_SIZE
        THEN [save EXCEPT !.full_contents =
                 CopyFromSlice(
                     CopyFromSlice(@, section_offset + relative_offset,
                                   SubSeq(pk3_data, 1, bytes_from_first_section)),
                     section_offset + SECTION_SIZE,
                     SubSeq(pk3_data, bytes_from_first_section + 1, PK3_SIZE_BOX))]
        ELSE [save EXCEPT !.full_contents =
                 CopyFromSlice(@, section_offset + relative_offset, pk3_data)]

\* the copy_from_slice calls of put_pokemon_in_box
write_box_slot(save, section_id, relative_offset, pk3_data) ==
    LET section_offset == get_offset_for_section(save, section_id)
    IN  IF relative_offset + PK3_SIZE_BOX > SECTION_DATA_SIZE
        THEN LET bytes_from_first_section == SECTION_DATA_SIZE - relative_offset
                 first == CopyFromSlice(save.full_contents,
                              section_offset + relative_offset,
                              SubSeq(pk3_data, 1, bytes_from_first_section))
                 next_offset == get_offset_for_section(save, section_id + 1)
             IN  [save EXCEPT !.full_contents =
                     CopyFromSlice(first, next_offset,
                         SubSeq(pk3_data, bytes_from_first_section + 1, PK3_SIZE_BOX))]
        ELSE [save EXCEPT !.full_contents =
                 CopyFromSlice(@, section_offset + relative_offset, pk3_data)]

\* [kind, val, save]: kind "Ok" carries the returned bool in val; "Err" is
\* an io::Error; "Panic" the unwrap of an out-of-range position
put_pokemon_in_box(save, box_number, slot_number, pk3_data, force) ==
    IF Len(pk3_data) # PK3_SIZE_BOX
    THEN [kind |-> "Err", val |-> FALSE, save |-> save]
    ELSE
      LET pk3 == from_pk3(pk3_data)
          marked == IF pk3.ok THEN mark_pokemon_owned_in_dex(save, pk3.species)
                    ELSE [ok |-> TRUE, save |-> save]
          loc == compute_section_id_and_offset_for_box_slot(box_number, slot_number)
      IN  IF ~marked.ok THEN [kind |-> "Err", val |-> FALSE, save |-> save]
          ELSE IF ~loc.ok THEN [kind |-> "Panic", val |-> FALSE, save |-> marked.save]
          ELSE IF pokemon_present(marked.save, loc.section_id, loc.offset) /\ ~force
               THEN [kind |-> "Ok", val |-> FALSE, save |-> marked.save]
          ELSE [kind |-> "Ok", val |-> TRUE,
                save |-> write_box_slot(marked.save, loc.section_id, loc.offset,
                                        pk3_data)]

\* a clear_box_position that does not force the write
clear_box_position_unforced(save, box_number, slot_number) ==
    put_pokemon_in_box(save, box_number, slot_number, Zeros(PK3_SIZE_BOX), FALSE)

clear_box_position(save, box_number, slot_number) ==
    put_pokemon_in_box(save, box_number, slot_number, Zeros(PK3_SIZE_BOX), TRUE)

\* [kind, pokemon, save]: kind "Some" / "None" on Ok, else "Err" or "Panic"
take_pokemon_from_box(save, box_number, slot_number) ==
    LET pkmn == get_pokemon_from_box(save, box_number, slot_number)
        cleared == clear_box_position(save, box_number, slot_number)
    IN  IF pkmn.kind \in {"Err", "Panic"} THEN [kind |-> pkmn.kind, save |-> save]
        ELSE IF cleared.kind # "Ok" THEN [kind |-> cleared.kind, save |-> cleared.save]
        ELSE IF pkmn.kind = "Some"
             THEN [kind |-> "Some", pokemon |-> pkmn.pokemon,
                   save |-> recompute_checksums(cleared.save)]
        ELSE [kind |-> "None", save |-> recompute_checksums(cleared.save)]

(***************************************************************************)
(* std::fs::write creates or truncates the file and then writes the buffer.*)
(* io is the outcome the file system produces: "ok"; "fail_open" (the file *)
(* could not be opened, nothing changes); "fail_torn" (the write failed    *)
(* after the truncation, a strict prefix of the buffer is on disk).        *)
(***************************************************************************)
WriteOutcomes == {"ok", "fail_open", "fail_torn"}

\* the length of the prefix a failed write leaves behind
TornLength == 0

\* a write that stores the current slot only
fs_write_current_slot(file, save, io) ==
    IF io = "ok"
    THEN [len |-> save.len,
          bytes |-> [o \in {x \in DOMAIN save.full_contents :
                               /\ x >= save.latest_save_offset
                               /\ x < save.latest_save_offset
                                        + NUMBER_OF_SECTIONS * SECTION_SIZE} |->
                        save.full_contents[o]]]
    ELSE file

fs_write(file, save, io) ==
    IF io = "ok" THEN [len |-> save.len, bytes |-> save.full_contents]
    ELSE IF io = "fail_open" THEN file
    ELSE [len |-> TornLength,
          bytes |-> [o \in {x \in DOMAIN save.full_contents : x < TornLength} |->
                        save.full_contents[o]]]

\* write_to_file / write_in_place: the SaveFile after recompute_checksums
\* and, for each outcome io of the file system, the file left on disk; the
\* call returns Ok exactly when io = "ok"
write_in_place(save, file) ==
    LET recomputed == recompute_checksums(save)
    IN  [save |-> recomputed,
         file |-> [io \in WriteOutcomes |-> fs_write(file, recomputed, io)]]

\* a write whose error is dropped
write_ok_always(io) ==
    TRUE

write_ok(io) ==
    io = "ok"

(***************************************************************************)
(* The roam store (pkroam-backend/src/database).  monsters maps the id of  *)
(* each row of table monsters to the row; box_entries is the set of rows   *)
(* of table box_entries.  A store value is [monsters, box_entries].        *)
(* foreign_keys is SQLite's foreign-key enforcement, which the code never  *)
(* sets: it is whatever the linked SQLite library defaults to.             *)
(***************************************************************************)
Max(S) ==
    CHOOSE x \in S : \A y \in S : y <= x

\* MonsterData::from_pk3
MonsterData_from_pk3(pk3_data) ==
    LET pkmn == from_pk3(pk3_data)
    IN  IF ~pkmn.ok THEN [ok |-> FALSE]
        ELSE [ok |-> TRUE,
              mon |-> [original_trainer_id |-> pkmn.public_id,
                       original_secret_id |-> pkmn.secret_id,
                       personality_value |-> pkmn.personality_value,
                       data_format |-> "PK3",
                       data |-> pk3_data]]

\* a box_entries table without UNIQUE (box_number, box_position)
box_entry_conflict_by_monster(box_entries, entry) ==
    \E e \in box_entries : e.monster_id = entry.monster_id

\* INSERT_BOX_ENTRY under UNIQUE (box_number, box_position) and
\* monster_id UNIQUE
box_entry_conflict(box_entries, entry) ==
    \E e \in box_entries :
        \/ (e.box_number = entry.box_number /\ e.box_position = entry.box_position)
        \/ e.monster_id = entry.monster_id

\* an insert_new_mon that binds box_number and box_position the wrong way
\* round
insert_new_mon_swapped(store, mon, location, dbio) ==
    LET row_id == IF DOMAIN store.monsters = {} THEN 1
                  ELSE Max(DOMAIN store.monsters) + 1
        entry == [box_number |-> location.box_position,
                  box_position |-> location.box_number,
                  monster_id |-> row_id]
    IN  IF ~dbio \/ box_entry_conflict(store.box_entries, entry)
        THEN [ok |-> FALSE, store |-> store, row_id |-> 0]
        ELSE [ok |-> TRUE,
              store |-> [monsters |->
                             [i \in DOMAIN store.monsters \cup {row_id} |->
                                 IF i = row_id THEN mon ELSE store.monsters[i]],
                         box_entries |-> store.box_entries \cup {entry}],
              row_id |-> row_id]

\* insert_new_mon in one transaction: [ok, store, row_id].  dbio = FALSE is
\* a failure of the engine itself (I/O error, busy); a failed transaction
\* is rolled back when it is dropped
insert_new_mon(store, mon, location, dbio) ==
    LET row_id == IF DOMAIN store.monsters = {} THEN 1
                  ELSE Max(DOMAIN store.monsters) + 1
        entry == [box_number |-> location.box_number,
                  box_position |-> location.box_position,
                  monster_id |-> row_id]
    IN  IF ~dbio \/ box_entry_conflict(store.box_entries, entry)
        THEN [ok |-> FALSE, store |-> store, row_id |-> 0]
        ELSE [ok |-> TRUE,
              store |-> [monsters |->
                             [i \in DOMAIN store.monsters \cup {row_id} |->
                                 IF i = row_id THEN mon ELSE store.monsters[i]],
                         box_entries |-> store.box_entries \cup {entry}],
              row_id |-> row_id]

\* DELETE_MON_WITH_ID; box_entries follows by ON DELETE CASCADE only when
\* foreign keys are enforced
delete_mon_with_id(store, id, fk) ==
    [monsters |-> [i \in DOMAIN store.monsters \ {id} |-> store.monsters[i]],
     box_entries |-> IF fk THEN {e \in store.box_entries : e.monster_id # id}
                     ELSE store.box_entries]

\* withdraw_mon in one transaction: [ok, store, monster, location]
withdraw_mon(store, id, fk, dbio) ==
    IF ~dbio \/ id \notin DOMAIN store.monsters
       \/ ~(\E e \in store.box_entries : e.monster_id = id)
    THEN [ok |-> FALSE, store |-> store]
    ELSE LET entry == CHOOSE e \in store.box_entries : e.monster_id = id
         IN  [ok |-> TRUE,
              store |-> delete_mon_with_id(store, id, fk),
              monster |-> store.monsters[id],
              location |-> [box_number |-> entry.box_number,
                            box_position |-> entry.box_position]]

(***************************************************************************)
(* Save images and creatures the model starts from.                        *)
(***************************************************************************)
\* an 80-byte box record: header fields, the species in the Growth
\* substructure picked by personality % 24, the record checksum, encrypted
MakePk3(p0, p1, ot0, ot1, language, species) ==
    LET hdr == [i \in 1..PK3_SIZE_BOX |->
                   IF i = 1 THEN p0 ELSE IF i = 2 THEN p1
                   ELSE IF i = 5 THEN ot0 ELSE IF i = 6 THEN ot1
                   ELSE IF i = LANGUAGE_OFFSET + 1 THEN language
                   ELSE IF i = 29 THEN species % 256
                   ELSE IF i = 30 THEN species \div 256
                   ELSE 0]
        g == SUBSTRUCTURE_OFFSET + GrowthOffset(PersonalityMod24(hdr))
        plain == [i \in 1..PK3_SIZE_BOX |->
                   IF i = g + 1 THEN species % 256
                   ELSE IF i = g + 2 THEN species \div 256
                   ELSE hdr[i]]
    IN  encrypt_decrypt_pk3(plain)

Pikachu == MakePk3(7, 1, 10, 1, 2, 25)
Charmander == MakePk3(2, 1, 44, 1, 2, 4)
Magikarp == MakePk3(9, 0, 10, 0, 1, 129)

Creatures == {Pikachu, Charmander, Magikarp}

\* trailers and trainer section of an otherwise empty save whose current
\* slot starts at base, rotated by rotation
EmptySave(base, rotation, game_code) ==
    LET other == IF base = SAVE_A_OFFSET THEN SAVE_B_OFFSET ELSE SAVE_A_OFFSET
        idOf(k) == (k + NUMBER_OF_SECTIONS - rotation) % NUMBER_OF_SECTIONS
        ids == [o \in {base + k * SECTION_SIZE + SECTION_ID_OFFSET :
                          k \in {j \in 0..(NUMBER_OF_SECTIONS - 1) : idOf(j) # 0}} |->
                   idOf((o - base) \div SECTION_SIZE)]
        idx == [o \in {base + k * SECTION_SIZE + SAVE_INDEX_OFFSET :
                          k \in 0..(NUMBER_OF_SECTIONS - 1)} |-> 2]
        old == [o \in {other + SAVE_INDEX_OFFSET} |-> 1]
        sec0 == base + SECTION_SIZE * ((0 + rotation) % NUMBER_OF_SECTIONS)
        code == IF game_code = "RubySapphire" THEN <<>>
                ELSE IF game_code = "FireRedLeafGreen"
                     THEN [o \in {sec0 + GAME_CODE_OFFSET} |-> 1]
                ELSE [o \in {sec0 + GAME_CODE_OFFSET} |-> 90]
    IN  [len |-> GAME_SAVE_DATA_LENGTH, bytes |-> ids @@ idx @@ old @@ code]

\* the save with record pk3 stored at (box_number, slot_number), its dex
\* bits set when seen is TRUE (an egg is stored without them)
WithCreature(save, box_number, slot_number, pk3, seen) ==
    LET loc == compute_section_id_and_offset_for_box_slot(box_number, slot_number)
        s1 == write_box_slot(save, loc.section_id, loc.offset, pk3)
    IN  IF seen THEN mark_pokemon_owned_in_dex(s1, from_pk3(pk3).species).save
        ELSE s1

\* a save as the game leaves it: Pikachu at box 1 slot 1, an egg
\* (Charmander) at box 1 slot 2, every section checksum valid
GameSave(base, rotation, game_code) ==
    LET opened == SaveFile_new(EmptySave(base, rotation, game_code)).save
        s1 == WithCreature(opened, 1, 1, Pikachu, TRUE)
        s2 == WithCreature(s1, 1, 2, Charmander, FALSE)
        s3 == recompute_checksums(s2)
    IN  [len |-> s3.len, bytes |-> s3.full_contents]

InitialFiles ==
    {GameSave(SAVE_A_OFFSET, 0, "Emerald"),
     GameSave(SAVE_B_OFFSET, 8, "FireRedLeafGreen")}

(***************************************************************************)
(* The transfer handlers (pkroam-backend/src/cli_handlers.rs), one command *)
(* at a time.  Each handler is cut at its durable steps: the save write    *)
(* and the store transaction.  Between two steps the process can crash.    *)
(***************************************************************************)
VARIABLES
    file,          \* the save file on disk: [len, bytes]
    foreign_keys,  \* whether the SQLite library enforces foreign keys
    store,         \* the roam store: [monsters, box_entries]
    pc,            \* "idle", "deposit_insert" or "withdraw_put"
    save_file,     \* the handler's SaveFile while a command runs
    local,         \* the handler's other locals while a command runs
    op,            \* the command line of the running or last command
    result,        \* how the last command ended: "Ok", "Err", "Panic", "Crash"
    trace,         \* the steps the running or last command went through
    pre,           \* file and store when the running command started
    commands       \* how many commands have been started

vars == <<file, foreign_keys, store, pc, save_file, local, op, result, trace, pre,
         commands>>

\* the largest monsters row id the model lets the store hand out
MaxRowId == 2

\* the number of commands one run of the model starts
MaxCommands == 2

\* the box positions of the save the commands are given: two occupied ones,
\* a free one, and (2, 20), the first whose 80 bytes straddle two sections
Slots == {<<1, 1>>, <<1, 2>>, <<1, 3>>, <<2, 20>>}

\* the roam-store locations the commands are given
StoreLocations ==
    {[box_number |-> 1, box_position |-> 1], [box_number |-> 1, box_position |-> 2]}

NoSave == [none |-> TRUE]
NoLocal == [none |-> TRUE]
NoPre == [none |-> TRUE]

EmptyStore == [monsters |-> <<>>, box_entries |-> {}]

\* the store the model starts from: Magikarp as monster 1 at (1, 1)
InitialStore ==
    insert_new_mon(EmptyStore, MonsterData_from_pk3(Magikarp).mon,
                   [box_number |-> 1, box_position |-> 1], TRUE).store

NextRowId ==
    IF DOMAIN store.monsters = {} THEN 1 ELSE Max(DOMAIN store.monsters) + 1

Init ==
    /\ file \in InitialFiles
    /\ foreign_keys \in BOOLEAN
    /\ store = InitialStore
    /\ pc = "idle"
    /\ save_file = NoSave
    /\ local = NoLocal
    /\ op = [cmd |-> "none"]
    /\ result = "none"
    /\ trace = <<>>
    /\ pre = NoPre
    /\ commands = 0

\* a new command starts
Start ==
    /\ pc = "idle"
    /\ commands < MaxCommands
    /\ commands' = commands + 1

\* the handler returns r
Return(r) ==
    /\ pc' = "idle"
    /\ result' = r
    /\ save_file' = NoSave
    /\ local' = NoLocal
    /\ pre' = NoPre

\* handle_deposit up to and including its first write_in_place
DepositTake(box_number, box_position) ==
    /\ Start
    /\ NextRowId <= MaxRowId
    /\ UNCHANGED <<foreign_keys, store>>
    /\ LET opened == SaveFile_new(file)
           taken == take_pokemon_from_box(opened.save, box_number, box_position)
           w == write_in_place(taken.save, file)
       IN  \E dest \in StoreLocations :
           /\ op' = [cmd |-> "deposit", box_number |-> box_number,
                     box_position |-> box_position, dest |-> dest]
           /\ IF ~opened.ok
              THEN /\ Return("Err")
                   /\ trace' = <<"open_err">>
                   /\ UNCHANGED file
              ELSE IF taken.kind \in {"Err", "Panic"}
              THEN /\ Return(taken.kind)
                   /\ trace' = <<"take_err">>
                   /\ UNCHANGED file
              ELSE IF taken.kind = "None"
              THEN /\ Return("Ok")
                   /\ trace' = <<"take_none">>
                   /\ UNCHANGED file
              ELSE \E io \in WriteOutcomes :
                   /\ file' = w.file[io]
                   /\ IF write_ok(io)
                      THEN /\ pc' = "deposit_insert"
                           /\ save_file' = w.save
                           /\ local' = [pokemon |-> taken.pokemon]
                           /\ pre' = [file |-> file, store |-> store]
                           /\ trace' = <<"save_write_" \o io>>
                           /\ UNCHANGED result
                      ELSE /\ Return("Ok")
                           /\ trace' = <<"save_write_" \o io>>

\* handle_deposit from to_pk3 on: the store insert and, when it fails, the
\* replacement of the creature in the save
DepositInsert(dbio) ==
    /\ pc = "deposit_insert"
    /\ UNCHANGED <<foreign_keys, op, commands>>
    /\ LET pk3_data == to_pk3(local.pokemon)
           md == MonsterData_from_pk3(pk3_data)
           ins == insert_new_mon(store, md.mon, op.dest, dbio)
           put == put_pokemon_in_box(save_file, op.box_number, op.box_position,
                                     pk3_data, TRUE)
           w == write_in_place(put.save, file)
       IN  IF ~md.ok
           THEN /\ Return("Err")
                /\ trace' = Append(trace, "from_pk3_err")
                /\ UNCHANGED <<file, store>>
           ELSE IF ins.ok
           THEN /\ Return("Ok")
                /\ store' = ins.store
                /\ trace' = Append(trace, "store_insert_ok")
                /\ UNCHANGED file
           ELSE IF put.kind # "Ok"
           THEN /\ Return(put.kind)
                /\ trace' = trace \o <<"store_insert_err", "put_err">>
                /\ UNCHANGED <<file, store>>
           ELSE \E io \in WriteOutcomes :
                /\ Return(IF write_ok(io) THEN "Ok" ELSE "Err")
                /\ trace' = trace \o <<"store_insert_err", "save_rewrite_" \o io>>
                /\ file' = w.file[io]
                /\ UNCHANGED store

\* handle_withdraw up to and including withdraw_mon and from_pk3
WithdrawDelete(monster_id, box_number, box_position, dbio) ==
    /\ Start
    /\ op' = [cmd |-> "withdraw", monster_id |-> monster_id,
              box_number |-> box_number, box_position |-> box_position]
    /\ UNCHANGED <<foreign_keys, file>>
    /\ LET opened == SaveFile_new(file)
           got == get_pokemon_from_box(opened.save, box_number, box_position)
           wd == withdraw_mon(store, monster_id, foreign_keys, dbio)
       IN  IF ~opened.ok
           THEN /\ Return("Err")
                /\ trace' = <<"open_err">>
                /\ UNCHANGED store
           ELSE IF got.kind # "None"
           THEN /\ Return(IF got.kind = "Panic" THEN "Panic" ELSE "Err")
                /\ trace' = <<"get_" \o got.kind>>
                /\ UNCHANGED store
           ELSE IF ~wd.ok
           THEN /\ Return("Err")
                /\ trace' = <<"store_delete_err">>
                /\ UNCHANGED store
           ELSE IF ~from_pk3(wd.monster.data).ok
           THEN /\ Return("Err")
                /\ trace' = <<"store_delete_ok", "from_pk3_err">>
                /\ store' = wd.store
           ELSE /\ pc' = "withdraw_put"
                /\ save_file' = opened.save
                /\ local' = [pkmn_data |-> wd.monster, location |-> wd.location]
                /\ pre' = [file |-> file, store |-> store]
                /\ trace' = <<"store_delete_ok">>
                /\ store' = wd.store
                /\ UNCHANGED result

\* handle_withdraw from put_pokemon_in_box on.  Both `?` leave the function
\* at once, so the Err arm of `match res`, with its insert_new_mon, is
\* never entered
WithdrawPut ==
    /\ pc = "withdraw_put"
    /\ UNCHANGED <<foreign_keys, op, store, commands>>
    /\ LET put == put_pokemon_in_box(save_file, op.box_number, op.box_position,
                                     local.pkmn_data.data, FALSE)
           w == write_in_place(put.save, file)
       IN  IF put.kind # "Ok"
           THEN /\ Return(put.kind)
                /\ trace' = Append(trace, "put_err")
                /\ UNCHANGED file
           ELSE \E io \in WriteOutcomes :
                /\ Return(IF write_ok(io) THEN "Ok" ELSE "Err")
                /\ trace' = trace \o <<IF put.val THEN "put_true" ELSE "put_false",
                                       "save_write_" \o io>>
                /\ file' = w.file[io]

\* the process dies between two durable steps; its memory is lost
Crash ==
    /\ pc # "idle"
    /\ Return("Crash")
    /\ trace' = Append(trace, "crash")
    /\ UNCHANGED <<file, foreign_keys, store, op, commands>>

Next ==
    \/ \E s \in Slots : DepositTake(s[1], s[2])
    \/ \E dbio \in BOOLEAN : DepositInsert(dbio)
    \/ \E id \in 1..MaxRowId, s \in Slots, dbio \in BOOLEAN :
           WithdrawDelete(id, s[1], s[2], dbio)
    \/ WithdrawPut
    \/ Crash

Spec == Init /\ [][Next]_vars

(***************************************************************************)
(* The SaveFile API on its own: a save is opened and creatures are put     *)
(* into and taken from its box slots in memory (save_file).                *)
(***************************************************************************)
SaveInit ==
    /\ file \in InitialFiles
    /\ foreign_keys = FALSE
    /\ store = EmptyStore
    /\ pc = "open"
    /\ save_file = SaveFile_new(file).save
    /\ local = NoLocal
    /\ op = [cmd |-> "none"]
    /\ result = "none"
    /\ trace = <<>>
    /\ pre = NoPre
    /\ commands = 0

\* one call of the API
Call ==
    /\ pc = "open"
    /\ commands < MaxCommands
    /\ commands' = commands + 1
    /\ UNCHANGED <<file, foreign_keys, store, pc, local, trace, pre>>

PutPokemonInBox(box_number, slot_number, pk3_data, force) ==
    /\ Call
    /\ op' = [cmd |-> "put", box_number |-> box_number, slot_number |-> slot_number,
              force |-> force]
    /\ LET put == put_pokemon_in_box(save_file, box_number, slot_number, pk3_data,
                                     force)
       IN  /\ save_file' = put.save
           /\ result' = IF put.kind # "Ok" THEN put.kind
                        ELSE IF put.val THEN "true" ELSE "false"

TakePokemonFromBox(box_number, slot_number) ==
    /\ Call
    /\ op' = [cmd |-> "take", box_number |-> box_number, slot_number |-> slot_number]
    /\ LET taken == take_pokemon_from_box(save_file, box_number, slot_number)
       IN  /\ save_file' = taken.save
           /\ result' = taken.kind

SaveNext ==
    \/ \E s \in Slots, pk3_data \in Creatures, force \in BOOLEAN :
           PutPokemonInBox(s[1], s[2], pk3_data, force)
    \/ \E s \in Slots : TakePokemonFromBox(s[1], s[2])

SaveSpec == SaveInit /\ [][SaveNext]_vars

(***************************************************************************)
(* One call of the SaveFile API on a save that has just been opened.  The  *)
(* saves cover the 14 rotations, both slots and the three game codes; the  *)
(* positions cover contiguous and straddling slots and positions out of    *)
(* range.  op is the call, result how it ended, local what it returned.    *)
(***************************************************************************)
PK3_SIZE_PARTY == 100

\* GameCode::team_size_offset
team_size_offset(game_code) ==
    IF game_code = "FireRedLeafGreen" THEN 52 ELSE 564

\* the closure of get_party: reads record after record from position on and
\* stops at the first one that does not parse or does not fit the buffer;
\* [ok, party, read] with read the number of records read
RECURSIVE read_party(_, _, _)
read_party(save, position, remaining) ==
    IF remaining = 0 THEN [ok |-> TRUE, party |-> <<>>, read |-> 0]
    ELSE IF position + PK3_SIZE_PARTY > save.len
         THEN [ok |-> FALSE, party |-> <<>>, read |-> 0]
    ELSE LET pkmn == from_pk3(Slice(save.full_contents, position, PK3_SIZE_PARTY))
             rest == read_party(save, position + PK3_SIZE_PARTY, remaining - 1)
         IN  IF ~pkmn.ok THEN [ok |-> FALSE, party |-> <<>>, read |-> 1]
             ELSE [ok |-> rest.ok,
                   party |-> IF rest.ok THEN <<pkmn>> \o rest.party ELSE <<>>,
                   read |-> 1 + rest.read]

\* SaveFile::get_party.  team_size is a u32; a value beyond the records that
\* fit the buffer ends in the same failed read as one record too many
get_party(save) ==
    LET start == get_offset_for_section(save, 1) + team_size_offset(save.game_code)
        team_size == U32At(save.full_contents, start)
        fit == (save.len - (start + 4)) \div PK3_SIZE_PARTY
        records == IF team_size[1] > 0 \/ team_size[2] > fit THEN fit + 1
                   ELSE team_size[2]
    IN  read_party(save, start + 4, records)

\* a 100-byte party record: the box record and 20 bytes of battle state
PartyRecord(pk3) ==
    pk3 \o <<0, 0, 0, 0, 5, 0, 20, 0, 20, 0, 11, 0, 9, 0, 12, 0, 10, 0, 10, 0>>

RECURSIVE PartyRecords(_)
PartyRecords(n) ==
    IF n = 0 THEN <<>> ELSE PartyRecord(Pikachu) \o PartyRecords(n - 1)

\* the boxes of the saves below, before the game computed the checksums:
\* Pikachu at (1, 1), an egg (Charmander) at (1, 2), Magikarp in the
\* straddling slot (4, 10), a byte in the region behind the two slots
ApiBoxes(base, rotation, game_code) ==
    LET opened == SaveFile_new(EmptySave(base, rotation, game_code)).save
        s1 == WithCreature(opened, 1, 1, Pikachu, TRUE)
        s2 == WithCreature(s1, 1, 2, Charmander, FALSE)
        s3 == WithCreature(s2, 4, 10, Magikarp, TRUE)
    IN  [s3 EXCEPT !.full_contents = CopyFromSlice(@, 2 * SAVE_B_OFFSET + 5, <<170>>)]

\* a save as the game leaves it, every section checksum valid
ApiSave(base, rotation, game_code) ==
    LET s == recompute_checksums(ApiBoxes(base, rotation, game_code))
    IN  [len |-> s.len, bytes |-> s.full_contents]

\* the same save with checksums that do not match its sections
StaleSave(base, rotation, game_code) ==
    LET s == ApiBoxes(base, rotation, game_code)
    IN  [len |-> s.len, bytes |-> s.full_contents]

\* a save whose team-size field holds team_size, followed by that many
\* party records
PartySave(base, rotation, game_code, team_size) ==
    LET boxes == ApiBoxes(base, rotation, game_code)
        start == get_offset_for_section(boxes, 1) + team_size_offset(game_code)
        s1 == [boxes EXCEPT !.full_contents =
                  CopyFromSlice(@, start,
                                <<team_size, 0, 0, 0>> \o PartyRecords(team_size))]
        s2 == recompute_checksums(s1)
    IN  [len |-> s2.len, bytes |-> s2.full_contents]

RotationGame(rotation) ==
    IF rotation % 3 = 0 THEN "Emerald"
    ELSE IF rotation % 3 = 1 THEN "RubySapphire" ELSE "FireRedLeafGreen"

\* the saves a run can open: one per rotation, one with stale checksums,
\* one with a party of 2 and one whose team-size field holds 7
IsApiFile(f) ==
    \/ \E rotation \in 0..(NUMBER_OF_SECTIONS - 1) :
           f = ApiSave(IF rotation % 2 = 0 THEN SAVE_A_OFFSET ELSE SAVE_B_OFFSET,
                       rotation, RotationGame(rotation))
    \/ f = StaleSave(SAVE_A_OFFSET, 9, "Emerald")
    \/ f = PartySave(SAVE_B_OFFSET, 3, "Emerald", 2)
    \/ f = PartySave(SAVE_A_OFFSET, 5, "FireRedLeafGreen", 7)

\* box positions of the calls: occupied, free, straddling ((2, 20) free,
\* (4, 10) occupied), the last slot of box 14, and positions outside
\* boxes 1..14 and slots 1..30
ApiSlots ==
    {<<1, 1>>, <<1, 2>>, <<1, 3>>, <<2, 20>>, <<4, 10>>, <<14, 30>>,
     <<15, 1>>, <<16, 30>>, <<17, 1>>, <<0, 1>>, <<1, 0>>, <<1, 31>>}

ApiInit ==
    /\ IsApiFile(file)
    /\ foreign_keys = FALSE
    /\ store = EmptyStore
    /\ pc = "open"
    /\ save_file = SaveFile_new(file).save
    /\ local = NoLocal
    /\ op = [cmd |-> "none"]
    /\ result = "none"
    /\ trace = <<>>
    /\ pre = NoPre
    /\ commands = 0

\* the one call of a run
ApiCall ==
    /\ pc = "open"
    /\ pc' = "called"
    /\ UNCHANGED <<foreign_keys, store, trace, pre, commands>>

CallPut(box_number, slot_number, pk3_data, force) ==
    /\ ApiCall
    /\ op' = [cmd |-> "put", box_number |-> box_number, slot_number |-> slot_number,
              pk3_data |-> pk3_data, force |-> force]
    /\ LET put == put_pokemon_in_box(save_file, box_number, slot_number, pk3_data,
                                     force)
       IN  /\ save_file' = put.save
           /\ result' = IF put.kind # "Ok" THEN put.kind
                        ELSE IF put.val THEN "true" ELSE "false"
    /\ UNCHANGED <<file, local>>

CallTake(box_number, slot_number) ==
    /\ ApiCall
    /\ op' = [cmd |-> "take", box_number |-> box_number, slot_number |-> slot_number]
    /\ LET taken == take_pokemon_from_box(save_file, box_number, slot_number)
       IN  /\ save_file' = taken.save
           /\ result' = taken.kind
           /\ local' = IF taken.kind = "Some" THEN taken.pokemon ELSE NoLocal
    /\ UNCHANGED file

CallGet(box_number, slot_number) ==
    /\ ApiCall
    /\ op' = [cmd |-> "get", box_number |-> box_number, slot_number |-> slot_number]
    /\ LET got == get_pokemon_from_box(save_file, box_number, slot_number)
       IN  /\ result' = got.kind
           /\ local' = IF got.kind = "Some" THEN got.pokemon ELSE NoLocal
    /\ UNCHANGED <<file, save_file>>

CallParty ==
    /\ ApiCall
    /\ op' = [cmd |-> "party"]
    /\ LET got == get_party(save_file)
       IN  /\ result' = IF got.ok THEN "Ok" ELSE "Err"
           /\ local' = got
    /\ UNCHANGED <<file, save_file>>

CallWrite(io) ==
    /\ ApiCall
    /\ op' = [cmd |-> "write", io |-> io]
    /\ LET w == write_in_place(save_file, file)
       IN  /\ save_file' = w.save
           /\ file' = w.file[io]
           /\ result' = IF write_ok(io) THEN "Ok" ELSE "Err"
    /\ UNCHANGED local

ApiNext ==
    \/ \E s \in ApiSlots, pk3_data \in Creatures, force \in BOOLEAN :
           CallPut(s[1], s[2], pk3_data, force)
    \/ \E s \in ApiSlots : CallTake(s[1], s[2])
    \/ \E s \in ApiSlots : CallGet(s[1], s[2])
    \/ CallParty
    \/ \E io \in WriteOutcomes : CallWrite(io)

ApiSpec == ApiInit /\ [][ApiNext]_vars

(***************************************************************************)
(* The pure functions, applied to inputs drawn from bounded sets: the      *)
(* choice of the current slot from the two save indices, and the record    *)
(* codec.  local holds the input and, after the application, the outcome.  *)
(***************************************************************************)
\* save indices as <<high 16 bits, low 16 bits>>: small and large values,
\* values that differ in one half only, and the empty marker 0xFFFFFFFF
IndexValues ==
    {<<0, 0>>, <<0, 1>>, <<0, 2>>, <<0, 65535>>, <<1, 0>>, <<32768, 0>>,
     <<65535, 65534>>, <<65535, 65535>>}

\* write_u32::<LittleEndian>
U32Bytes(w) ==
    <<w[2] % 256, w[2] \div 256, w[1] % 256, w[1] \div 256>>

\* save data that carries index a in slot A and index b in slot B
ImageWithIndices(a, b) ==
    CopyFromSlice(CopyFromSlice(<<>>, SAVE_A_OFFSET + SAVE_INDEX_OFFSET, U32Bytes(a)),
                  SAVE_B_OFFSET + SAVE_INDEX_OFFSET, U32Bytes(b))

\* a record of len bytes with personality p and trainer id ot (four bytes
\* each), language byte language, a body and a tail that are not zero
Blob(p, ot, language, body, len) ==
    [i \in 1..len |->
        IF i <= 4 THEN p[i]
        ELSE IF i <= 8 THEN ot[i - 4]
        ELSE IF i = LANGUAGE_OFFSET + 1 THEN language
        ELSE IF i <= SUBSTRUCTURE_OFFSET THEN (7 * i) % 256
        ELSE IF i <= PK3_SIZE_BOX THEN (body + i) % 256
        ELSE (3 * i) % 256]

Blobs ==
    {Blob(p, ot, language, body, len) :
        p \in {<<7, 1, 0, 0>>, <<255, 3, 170, 5>>},
        ot \in {<<10, 1, 0, 0>>, <<1, 2, 3, 4>>},
        language \in {2, 6, 0},
        body \in {0, 85, 255},
        len \in {PK3_SIZE_BOX, PK3_SIZE_PARTY}}

PureInit ==
    /\ file = [len |-> 0, bytes |-> <<>>]
    /\ foreign_keys = FALSE
    /\ store = EmptyStore
    /\ pc = "input"
    /\ save_file = NoSave
    /\ \/ \E a \in IndexValues, b \in IndexValues :
              local = [kind |-> "indices", a |-> a, b |-> b]
       \/ \E pk3 \in Blobs : local = [kind |-> "record", pk3 |-> pk3]
    /\ op = [cmd |-> "none"]
    /\ result = "none"
    /\ trace = <<>>
    /\ pre = NoPre
    /\ commands = 0

\* determine_latest_game_save_offset on the save data of the input
DetermineLatest ==
    /\ pc = "input" /\ local.kind = "indices"
    /\ pc' = "done"
    /\ op' = [cmd |-> "determine_latest_game_save_offset"]
    /\ local' = [kind |-> "offset", a |-> local.a, b |-> local.b,
                 offset |-> determine_latest_game_save_offset(
                                ImageWithIndices(local.a, local.b))]
    /\ result' = "Ok"
    /\ UNCHANGED <<file, foreign_keys, store, save_file, trace, pre, commands>>

\* from_pk3 on the record of the input and to_pk3 on what it returned; once
\* and twice are the record after one and two runs of encrypt_decrypt_pk3
Codec ==
    /\ pc = "input" /\ local.kind = "record"
    /\ pc' = "done"
    /\ op' = [cmd |-> "from_pk3"]
    /\ LET pokemon == from_pk3(local.pk3)
       IN  /\ result' = IF pokemon.ok THEN "Ok" ELSE "Err"
           /\ local' = [kind |-> "codec", pk3 |-> local.pk3,
                        encoded |-> IF pokemon.ok THEN to_pk3(pokemon) ELSE <<>>,
                        once |-> encrypt_decrypt_pk3(local.pk3),
                        twice |-> encrypt_decrypt_pk3(encrypt_decrypt_pk3(local.pk3))]
    /\ UNCHANGED <<file, foreign_keys, store, save_file, trace, pre, commands>>

PureNext ==
    \/ DetermineLatest
    \/ Codec

PureSpec == PureInit /\ [][PureNext]_vars

(***************************************************************************)
(* The roam store on its own: a sequence of insert_new_mon and             *)
(* withdraw_mon calls on a store that starts empty.  op is the call,       *)
(* result how it ended, local what it returned.                            *)
(***************************************************************************)
\* the number of calls one run of the model makes on the store
MaxStoreOps == 4

\* the rows the calls insert
StoreMons ==
    {MonsterData_from_pk3(Pikachu).mon, MonsterData_from_pk3(Magikarp).mon}

StoreInit ==
    /\ file = [len |-> 0, bytes |-> <<>>]
    /\ foreign_keys \in BOOLEAN
    /\ store = EmptyStore
    /\ pc = "store"
    /\ save_file = NoSave
    /\ local = NoLocal
    /\ op = [cmd |-> "none"]
    /\ result = "none"
    /\ trace = <<>>
    /\ pre = NoPre
    /\ commands = 0

StoreCall ==
    /\ pc = "store"
    /\ commands < MaxStoreOps
    /\ commands' = commands + 1
    /\ UNCHANGED <<file, foreign_keys, pc, save_file, trace, pre>>

StoreInsert(mon, location, dbio) ==
    /\ StoreCall
    /\ op' = [cmd |-> "insert_new_mon", mon |-> mon, location |-> location]
    /\ LET ins == insert_new_mon(store, mon, location, dbio)
       IN  /\ store' = ins.store
           /\ result' = IF ins.ok THEN "Ok" ELSE "Err"
           /\ local' = [row_id |-> ins.row_id]

StoreWithdraw(id, dbio) ==
    /\ StoreCall
    /\ op' = [cmd |-> "withdraw_mon", id |-> id]
    /\ LET w == withdraw_mon(store, id, foreign_keys, dbio)
       IN  /\ store' = w.store
           /\ result' = IF w.ok THEN "Ok" ELSE "Err"
           /\ local' = IF w.ok THEN [monster |-> w.monster, location |-> w.location]
                       ELSE NoLocal

StoreNext ==
    \/ \E mon \in StoreMons, location \in StoreLocations, dbio \in BOOLEAN :
           StoreInsert(mon, location, dbio)
    \/ \E id \in 1..MaxStoreOps, dbio \in BOOLEAN : StoreWithdraw(id, dbio)

StoreSpec == StoreInit /\ [][StoreNext]_vars

(***************************************************************************)
(* Opening the roam store (DbConn::new): initialisation and migration.     *)
(* Here store is a database [user_version, tables, saves]: the pragma, the *)
(* set of schema objects (tables, and the column the first migration       *)
(* adds), and the number of rows of table saves.  fail names the statement *)
(* the engine fails at: "none", "step1".."step3" (the migration from that  *)
(* version), "tables" (a CREATE TABLE of the initialisation),              *)
(* "set_version" or "commit".                                              *)
(***************************************************************************)
CURRENT_DATABASE_SCHEMA_VERSION == 4

\* the number of times one run of the model opens the store
MaxOpens == 3

Failures == {"none", "step1", "step2", "step3", "tables", "set_version", "commit"}

StepFailure(version) ==
    IF version = 1 THEN "step1" ELSE IF version = 2 THEN "step2" ELSE "step3"

\* the schema each version of the program left behind
SchemaOf(version) ==
    IF version = 0 THEN {}
    ELSE IF version = 1 THEN {"saves"}
    ELSE IF version = 2 THEN {"saves", "saves.connected"}
    ELSE IF version = 3 THEN {"saves", "saves.connected", "monsters"}
    ELSE {"saves", "saves.connected", "monsters", "box_entries"}

\* a perform_migration that reports every step as done
perform_migration_unchecked(db, starting_version, fail) ==
    [ok |-> TRUE, db |-> db]

\* perform_migration inside the transaction: [ok, db]
perform_migration(db, starting_version, fail) ==
    LET added == IF starting_version = 1 THEN "saves.connected"
                 ELSE IF starting_version = 2 THEN "monsters"
                 ELSE "box_entries"
    IN  IF starting_version \notin 1..3 THEN [ok |-> FALSE, db |-> db]
        ELSE IF fail = StepFailure(starting_version) \/ added \in db.tables
                \/ (starting_version = 1 /\ "saves" \notin db.tables)
        THEN [ok |-> FALSE, db |-> db]
        ELSE [ok |-> TRUE, db |-> [db EXCEPT !.tables = @ \cup {added}]]

\* the loop of migrate_database: [ok, db, steps], steps the versions whose
\* migration was started, in the order they were started
RECURSIVE migrate_steps(_, _, _, _)
migrate_steps(db, version, target_version, fail) ==
    IF version >= target_version THEN [ok |-> TRUE, db |-> db, steps |-> <<>>]
    ELSE LET m == perform_migration(db, version, fail)
             rest == migrate_steps(m.db, version + 1, target_version, fail)
         IN  IF ~m.ok THEN [ok |-> FALSE, db |-> m.db, steps |-> <<version>>]
             ELSE [ok |-> rest.ok, db |-> rest.db, steps |-> <<version>> \o rest.steps]

\* set_schema_version inside the transaction: [ok, db]
set_schema_version(db, schema_version, fail) ==
    IF fail = "set_version" THEN [ok |-> FALSE, db |-> db]
    ELSE [ok |-> TRUE, db |-> [db EXCEPT !.user_version = schema_version]]

\* with_transaction: the database after the transaction whose closure ended
\* as res; it is committed when the closure returned Ok and COMMIT worked,
\* and rolled back, when the Transaction is dropped, otherwise
with_transaction(db, res, fail) ==
    IF res.ok /\ fail # "commit" THEN [ok |-> TRUE, db |-> res.db]
    ELSE [ok |-> FALSE, db |-> db]

\* a migrate_database that commits after every step
migrate_database_per_step(db, current_version, target_version, fail) ==
    LET m == migrate_steps(db, current_version, target_version, fail)
        v == IF m.ok THEN set_schema_version(m.db, target_version, fail)
             ELSE [ok |-> FALSE, db |-> m.db]
    IN  [ok |-> v.ok /\ fail # "commit",
         db |-> IF fail = "commit" THEN db ELSE v.db,
         steps |-> m.steps]

\* migrate_database: the loop and set_schema_version in one transaction
migrate_database(db, current_version, target_version, fail) ==
    LET m == migrate_steps(db, current_version, target_version, fail)
        v == IF m.ok THEN set_schema_version(m.db, target_version, fail)
             ELSE [ok |-> FALSE, db |-> m.db]
        t == with_transaction(db, v, fail)
    IN  [ok |-> t.ok, db |-> t.db, steps |-> m.steps]

\* initialize_database: the three CREATE TABLE and set_schema_version in
\* one transaction
initialize_database(db, fail) ==
    LET created == IF fail = "tables" \/ db.tables # {}
                   THEN [ok |-> FALSE, db |-> db]
                   ELSE [ok |-> TRUE,
                         db |-> [db EXCEPT !.tables = SchemaOf(
                                                CURRENT_DATABASE_SCHEMA_VERSION)]]
        v == IF created.ok
             THEN set_schema_version(created.db, CURRENT_DATABASE_SCHEMA_VERSION, fail)
             ELSE created
    IN  with_transaction(db, v, fail)

\* DbConn::new: [kind, db, steps]; kind "Exit" is std::process::exit(1)
DbConn_new(db, fail) ==
    LET schema_version == db.user_version
        migrated == migrate_database(db, schema_version,
                                     CURRENT_DATABASE_SCHEMA_VERSION, fail)
        initialized == initialize_database(db, fail)
    IN  IF schema_version = 0
        THEN [kind |-> IF initialized.ok THEN "Ok" ELSE "Err",
              db |-> initialized.db, steps |-> <<>>]
        ELSE IF schema_version < CURRENT_DATABASE_SCHEMA_VERSION
        THEN [kind |-> IF migrated.ok THEN "Ok" ELSE "Err",
              db |-> migrated.db, steps |-> migrated.steps]
        ELSE IF schema_version > CURRENT_DATABASE_SCHEMA_VERSION
        THEN [kind |-> "Exit", db |-> db, steps |-> <<>>]
        ELSE [kind |-> "Ok", db |-> db, steps |-> <<>>]

\* the store is one an earlier, this or a later version of the program
\* left behind, with up to two saves
MigrateInit ==
    /\ file = [len |-> 0, bytes |-> <<>>]
    /\ foreign_keys \in BOOLEAN
    /\ \E version \in 0..(CURRENT_DATABASE_SCHEMA_VERSION + 1), saves \in 0..2 :
           /\ version = 0 => saves = 0
           /\ store = [user_version |-> version, tables |-> SchemaOf(version),
                       saves |-> saves]
    /\ pc = "closed"
    /\ save_file = NoSave
    /\ local = NoLocal
    /\ op = [cmd |-> "none"]
    /\ result = "none"
    /\ trace = <<>>
    /\ pre = NoPre
    /\ commands = 0

\* the program is started: DbConn::new opens the store; local keeps the
\* database as it was before
Open(fail) ==
    /\ pc = "closed"
    /\ commands < MaxOpens
    /\ commands' = commands + 1
    /\ op' = [cmd |-> "new", fail |-> fail]
    /\ local' = store
    /\ LET opened == DbConn_new(store, fail)
       IN  /\ store' = opened.db
           /\ result' = opened.kind
           /\ trace' = opened.steps
    /\ UNCHANGED <<file, foreign_keys, pc, save_file, pre>>

MigrateNext ==
    \E fail \in Failures : Open(fail)

MigrateSpec == MigrateInit /\ [][MigrateNext]_vars

(***************************************************************************)
(* list-mons with a save id (cli_handlers.rs, handle_list_mons): one run   *)
(* of the command on a save the game left behind.  local holds the rows of *)
(* the printed table: party_rows, [slot, species] under box "P", followed  *)
(* by box_rows, [box, slot, species].                                      *)
(***************************************************************************)
\* SaveFile::get_box from slot on: [ok, entries], entries the occupied
\* positions of the box in ascending order with their creatures
RECURSIVE get_box_from(_, _, _)
get_box_from(save, box_number, slot) ==
    IF slot > 30 THEN [ok |-> TRUE, entries |-> <<>>]
    ELSE LET got == get_pokemon_from_box(save, box_number, slot)
             rest == get_box_from(save, box_number, slot + 1)
         IN  IF got.kind \in {"Err", "Panic"} \/ ~rest.ok
             THEN [ok |-> FALSE, entries |-> <<>>]
             ELSE IF got.kind = "Some"
             THEN [ok |-> TRUE,
                   entries |-> <<[position |-> slot, pkmn |-> got.pokemon]>>
                                 \o rest.entries]
             ELSE rest

get_box(save, box_number) ==
    get_box_from(save, box_number, 1)

\* the rows of the party
PartyRows(party) ==
    [idx \in 1..Len(party) |->
        [slot |-> idx, species |-> party[idx].species]]

\* the rows of one box
BoxRows(box_number, entries) ==
    [i \in 1..Len(entries) |->
        [box |-> box_number, slot |-> entries[i].position,
         species |-> entries[i].pkmn.species]]

\* the loop `for box_number in 1..14` from box_number on; end is the
\* exclusive upper end of the range: [ok, rows]
RECURSIVE list_boxes(_, _, _)
list_boxes(save, box_number, end) ==
    IF box_number >= end THEN [ok |-> TRUE, rows |-> <<>>]
    ELSE LET box_pkmn == get_box(save, box_number)
             rest == list_boxes(save, box_number + 1, end)
         IN  IF ~box_pkmn.ok \/ ~rest.ok THEN [ok |-> FALSE, rows |-> <<>>]
             ELSE [ok |-> TRUE,
                   rows |-> BoxRows(box_number, box_pkmn.entries) \o rest.rows]

\* handle_list_mons with Some(save_id): [ok, party_rows, box_rows]; dbio is
\* whether
\* get_save finds and reads the save's row
handle_list_mons(f, dbio) ==
    LET opened == SaveFile_new(f)
        party == get_party(opened.save)
        boxes == list_boxes(opened.save, 1, 14)
    IN  IF ~dbio \/ ~opened.ok
        THEN [ok |-> FALSE, party_rows |-> <<>>, box_rows |-> <<>>]
        ELSE IF ~party.ok \/ ~boxes.ok
        THEN [ok |-> FALSE, party_rows |-> <<>>, box_rows |-> <<>>]
        ELSE [ok |-> TRUE, party_rows |-> PartyRows(party.party),
              box_rows |-> boxes.rows]

\* where the saves below hold one more creature: nowhere, in the middle of
\* the boxes, in the last slot of box 13, and in box 14
ListExtras ==
    {<<0, 0>>, <<7, 15>>, <<13, 30>>, <<14, 1>>, <<14, 30>>}

\* the save of ApiBoxes with a party of team_size and Magikarp at extra
ListSave(base, rotation, game_code, team_size, extra) ==
    LET boxes == ApiBoxes(base, rotation, game_code)
        start == get_offset_for_section(boxes, 1) + team_size_offset(game_code)
        s1 == [boxes EXCEPT !.full_contents =
                  CopyFromSlice(@, start,
                                <<team_size, 0, 0, 0>> \o PartyRecords(team_size))]
        s2 == IF extra[1] = 0 THEN s1
              ELSE WithCreature(s1, extra[1], extra[2], Magikarp, TRUE)
        s3 == recompute_checksums(s2)
    IN  [len |-> s3.len, bytes |-> s3.full_contents]

ListInit ==
    /\ \E rotation \in 0..(NUMBER_OF_SECTIONS - 1), extra \in ListExtras :
           file = ListSave(IF rotation % 2 = 0 THEN SAVE_A_OFFSET ELSE SAVE_B_OFFSET,
                           rotation, RotationGame(rotation), rotation % 3, extra)
    /\ foreign_keys = FALSE
    /\ store = EmptyStore
    /\ pc = "shell"
    /\ save_file = NoSave
    /\ local = NoLocal
    /\ op = [cmd |-> "none"]
    /\ result = "none"
    /\ trace = <<>>
    /\ pre = NoPre
    /\ commands = 0

ListMons(dbio) ==
    /\ pc = "shell"
    /\ pc' = "listed"
    /\ op' = [cmd |-> "list_mons", dbio |-> dbio]
    /\ LET listed == handle_list_mons(file, dbio)
       IN  /\ result' = IF listed.ok THEN "Ok" ELSE "Err"
           /\ local' = [party_rows |-> listed.party_rows,
                        box_rows |-> listed.box_rows]
    /\ UNCHANGED <<file, foreign_keys, store, save_file, trace, pre, commands>>

ListNext ==
    \E dbio \in BOOLEAN : ListMons(dbio)

ListSpec == ListInit /\ [][ListNext]_vars

(***************************************************************************)
(* The section rotation, in both crates that carry it: pkroam/src/save.rs  *)
(* and pkroam_lib/src/save.rs.  One run opens a save whose current slot    *)
(* carries a rotation of the ids 0..13 and asks one crate for the offset   *)
(* of one logical section; local holds the answer.                         *)
(***************************************************************************)
Crates == {"pkroam", "pkroam_lib"}

\* pkroam_lib: determine_section_rotation, on the whole u16; the images of
\* the model carry ids 0..13, so the subtraction is exact
lib_determine_section_rotation(save_offset, save_data) ==
    LET section_id == At(save_data, save_offset + SECTION_ID_OFFSET)
                        + 256 * At(save_data, save_offset + SECTION_ID_OFFSET + 1)
    IN  (14 - section_id) % 14

\* pkroam_lib: SaveFile::get_offset_for_section; the u8 sum is at most 26
lib_get_offset_for_section(save, section_id) ==
    LET new_section_id == section_id + save.section_rotation
    IN  save.latest_save_offset + SECTION_SIZE * new_section_id

\* the fields of the SaveFile that crate makes of the file's bytes
RotationOf(crate, f) ==
    LET latest_save_offset == determine_latest_game_save_offset(f.bytes)
    IN  [latest_save_offset |-> latest_save_offset,
         section_rotation |->
             IF crate = "pkroam"
             THEN determine_section_rotation(latest_save_offset, f.bytes)
             ELSE lib_determine_section_rotation(latest_save_offset, f.bytes)]

\* get_offset_for_section of that crate
SectionOffset(crate, f, section_id) ==
    IF crate = "pkroam"
    THEN get_offset_for_section(RotationOf(crate, f), section_id)
    ELSE lib_get_offset_for_section(RotationOf(crate, f), section_id)

\* every rotation in either slot
RotationInit ==
    /\ \E rotation \in 0..(NUMBER_OF_SECTIONS - 1),
          base \in {SAVE_A_OFFSET, SAVE_B_OFFSET} :
           file = EmptySave(base, rotation, RotationGame(rotation))
    /\ foreign_keys = FALSE
    /\ store = EmptyStore
    /\ pc = "input"
    /\ save_file = NoSave
    /\ local = NoLocal
    /\ op = [cmd |-> "none"]
    /\ result = "none"
    /\ trace = <<>>
    /\ pre = NoPre
    /\ commands = 0

GetOffsetForSection(crate, section_id) ==
    /\ pc = "input"
    /\ pc' = "applied"
    /\ op' = [cmd |-> "get_offset_for_section", crate |-> crate,
              section_id |-> section_id]
    /\ local' = [offset |-> SectionOffset(crate, file, section_id)]
    /\ result' = "Ok"
    /\ UNCHANGED <<file, foreign_keys, store, save_file, trace, pre, commands>>

RotationNext ==
    \E crate \in Crates, section_id \in 0..(NUMBER_OF_SECTIONS - 1) :
        GetOffsetForSection(crate, section_id)

RotationSpec == RotationInit /\ [][RotationNext]_vars

(***************************************************************************)
(* The terminal application (pkroam_app): the UI on the main thread, the   *)
(* backend worker thread, the AppState they share behind a Mutex, and the  *)
(* two channels.  Here                                                     *)
(*   store     is the saves table, the ids of its rows in ascending order; *)
(*   local     is [app_state, poisoned, ui_state, event_rx, event_tx,      *)
(*             terminate_rx, terminate_tx, backend]: the shared AppState   *)
(*             and whether its Mutex is poisoned, the UI's own state, the  *)
(*             events queued in the event channel and whether its Sender   *)
(*             still exists, the number of queued terminate messages and   *)
(*             whether their Sender still exists, and the worker: "loop",  *)
(*             "exited" (it left the loop) or "panicked";                  *)
(*   pc        is the main thread: "ui" (run_context), "quit" (run_app_ui  *)
(*             returned), "join" (quit has sent), "returned" (quit         *)
(*             returned) or "panicked";                                    *)
(*   pre       is [sent]: the events sent so far, in order;                *)
(*   trace     is the events the worker passed to handle_event, in order;  *)
(*   op        is the last step; commands counts the keys pressed.         *)
(* A save is its id; its GameSaveData is named by the same number.         *)
(***************************************************************************)
\* the number of keys pressed in one run
MaxKeys == 4

\* the path token and GameSaveData of a save added in the run
NewSavePath == 9

\* Game::variants().len()
GameVariants == 5

AppEvent(name, id) == [name |-> name, id |-> id]

SaveSelectionState(saves) == [kind |-> "SaveSelection", saves |-> saves, data |-> 0]
NewSaveState == [kind |-> "NewSave", saves |-> <<>>, data |-> 0]
ConnectedSaveEditState(data) ==
    [kind |-> "ConnectedSaveEdit", saves |-> <<>>, data |-> data]

\* UiState::SaveSelection(SaveSelection::new(saves))
SaveSelection_new(saves) ==
    [kind |-> "SaveSelection", saves |-> saves, highlighted_row |-> 0,
     save_path_in_progress |-> 0, save_path |-> FALSE]

\* UiState::NewSaveEntry(NewSaveEntry::new()); save_path_in_progress is the
\* number of characters typed, save_path whether it is Some
NewSaveEntry_new ==
    [kind |-> "NewSaveEntry", saves |-> <<>>, highlighted_row |-> 0,
     save_path_in_progress |-> 0, save_path |-> FALSE]

\* the elements of sequence q that satisfy Keep, in order
RECURSIVE FilterSeq(_, _)
FilterSeq(q, keep) ==
    IF q = <<>> THEN <<>>
    ELSE (IF Head(q) \in keep THEN <<Head(q)>> ELSE <<>>) \o FilterSeq(Tail(q), keep)

\* DbConn::delete_save: [ok, saves]; deleting an id that has no row is Ok
delete_save(saves, save_id, dbio) ==
    IF ~dbio THEN [ok |-> FALSE, saves |-> saves]
    ELSE [ok |-> TRUE,
          saves |-> FilterSeq(saves, {id \in 1..(NewSavePath + 1) : id # save_id})]

\* DbConn::add_new_save: the row gets the next rowid
add_new_save(saves, dbio) ==
    IF ~dbio THEN [ok |-> FALSE, saves |-> saves]
    ELSE [ok |-> TRUE,
          saves |-> Append(saves, IF saves = <<>> THEN 1
                                  ELSE saves[Len(saves)] + 1)]

\* the new list of the RequestDeleteSave arm:
\* saves.iter().filter(|save| save.id == save_id)
request_delete_save(saves, save_id) ==
    FilterSeq(saves, {save_id})

\* handle_event under the lock: [panic, app_state, saves, handled];
\* handled is FALSE in the arm that logs "Unhandled event"
handle_event(app_state, saves, event, dbio) ==
    LET same == [panic |-> FALSE, app_state |-> app_state, saves |-> saves,
                 handled |-> TRUE]
        deleted == delete_save(saves, event.id, dbio)
        added == add_new_save(saves, dbio)
    IN  IF app_state.kind = "SaveSelection" /\ event.name = "AddNewSave"
        THEN [same EXCEPT !.app_state = NewSaveState]
        ELSE IF app_state.kind = "SaveSelection" /\ event.name = "RequestDeleteSave"
        THEN IF ~deleted.ok THEN same
             ELSE [same EXCEPT
                     !.app_state = SaveSelectionState(
                         request_delete_save(app_state.saves, event.id)),
                     !.saves = deleted.saves]
        ELSE IF app_state.kind = "SaveSelection" /\ event.name = "SaveSelected"
        THEN IF \E i \in 1..Len(app_state.saves) : app_state.saves[i] = event.id
             THEN [same EXCEPT !.app_state = ConnectedSaveEditState(event.id)]
             ELSE [same EXCEPT !.panic = TRUE]
        ELSE IF app_state.kind = "NewSave" /\ event.name = "NewSaveCreated"
        THEN IF added.ok
             THEN [same EXCEPT !.app_state = ConnectedSaveEditState(event.id),
                               !.saves = added.saves]
             ELSE same
        ELSE [same EXCEPT !.handled = FALSE]

\* a worker that takes every queued event in one iteration
events_of_iteration_all(event_rx) ==
    event_rx

\* the events one loop iteration takes from the channel: event_rx.try_recv()
events_of_iteration(event_rx) ==
    IF event_rx = <<>> THEN <<>> ELSE <<Head(event_rx)>>

\* handle_event for the events taken, one after the other:
\* [panic, app_state, saves]
RECURSIVE handle_events(_, _, _, _)
handle_events(app_state, saves, events, dbio) ==
    IF events = <<>> THEN [panic |-> FALSE, app_state |-> app_state, saves |-> saves]
    ELSE LET h == handle_event(app_state, saves, Head(events), dbio)
         IN  IF h.panic THEN [panic |-> TRUE, app_state |-> app_state, saves |-> saves]
             ELSE handle_events(h.app_state, h.saves, Tail(events), dbio)

\* SaveSelection::update_saves
update_saves(data, saves) ==
    IF Len(saves) # Len(data.saves)
    THEN [data EXCEPT !.saves = saves, !.highlighted_row = 0]
    ELSE data

\* UiManager::update_ui_state: [panic, ui_state]; ConnectedSaveEdit is
\* unimplemented!()
update_ui_state(app_state, ui_state) ==
    IF app_state.kind = "SaveSelection"
    THEN [panic |-> FALSE,
          ui_state |-> IF ui_state.kind = "SaveSelection"
                       THEN update_saves(ui_state, app_state.saves)
                       ELSE SaveSelection_new(app_state.saves)]
    ELSE IF app_state.kind = "NewSave"
    THEN [panic |-> FALSE,
          ui_state |-> IF ui_state.kind = "NewSaveEntry" THEN ui_state
                       ELSE NewSaveEntry_new]
    ELSE [panic |-> TRUE, ui_state |-> ui_state]

Keys == {"None", "Down", "Up", "Enter", "Delete", "Char", "Backspace"}

\* SaveSelection::handle_key and draw: [panic, ui_state, sent].  Up on row 0
\* subtracts from a u16 zero: a panic at once with overflow checks, and
\* without them row 65535, where draw indexes behind the lines
SaveSelection_handle_key(data, key) ==
    LET same == [panic |-> FALSE, ui_state |-> data, sent |-> <<>>]
        row == data.highlighted_row
    IN  IF key = "Down"
        THEN [same EXCEPT !.ui_state.highlighted_row =
                              IF Len(data.saves) + 2 - 1 < row + 1
                              THEN Len(data.saves) + 2 - 1 ELSE row + 1]
        ELSE IF key = "Up"
        THEN IF row = 0 THEN [same EXCEPT !.panic = TRUE]
             ELSE [same EXCEPT !.ui_state.highlighted_row = row - 1]
        ELSE IF key = "Enter"
        THEN IF row < Len(data.saves)
             THEN [same EXCEPT !.sent = <<AppEvent("SaveSelected", data.saves[row + 1])>>]
             ELSE IF row = Len(data.saves) THEN same
             ELSE [same EXCEPT !.sent = <<AppEvent("AddNewSave", 0)>>]
        ELSE IF key = "Delete"
        THEN IF row < Len(data.saves)
             THEN [same EXCEPT
                     !.sent = <<AppEvent("RequestDeleteSave", data.saves[row + 1])>>]
             ELSE same
        ELSE same

\* NewSaveEntry::handle_key and draw: [panic, ui_state, sent]; fsio is
\* whether the typed path exists, or SaveFile::new reads it
NewSaveEntry_handle_key(data, key, fsio) ==
    LET same == [panic |-> FALSE, ui_state |-> data, sent |-> <<>>]
        row == data.highlighted_row
    IN  IF ~data.save_path
        THEN IF key = "Char"
             THEN [same EXCEPT !.ui_state.save_path_in_progress = @ + 1]
             ELSE IF key = "Backspace"
             THEN [same EXCEPT !.ui_state.save_path_in_progress =
                                   IF @ > 0 THEN @ - 1 ELSE 0]
             ELSE IF key = "Enter" /\ data.save_path_in_progress > 0 /\ fsio
             THEN [same EXCEPT !.ui_state.save_path = TRUE]
             ELSE same
        ELSE IF key = "Backspace"
             THEN [same EXCEPT !.ui_state.save_path = FALSE]
             ELSE IF key = "Down"
             THEN [same EXCEPT !.ui_state.highlighted_row =
                                   IF GameVariants - 1 < row + 1
                                   THEN GameVariants - 1 ELSE row + 1]
             ELSE IF key = "Up"
             THEN IF row = 0 THEN [same EXCEPT !.panic = TRUE]
                  ELSE [same EXCEPT !.ui_state.highlighted_row = row - 1]
             ELSE IF key = "Enter" /\ fsio
             THEN [same EXCEPT !.sent = <<AppEvent("NewSaveCreated", NewSavePath)>>]
             ELSE same

\* UiState::handle_key
handle_key(ui_state, key, fsio) ==
    IF key = "None" THEN [panic |-> FALSE, ui_state |-> ui_state, sent |-> <<>>]
    ELSE IF ui_state.kind = "SaveSelection"
    THEN SaveSelection_handle_key(ui_state, key)
    ELSE NewSaveEntry_handle_key(ui_state, key, fsio)

\* the saves tables a run starts from
InitialSaves == {<<>>, <<1>>, <<1, 2>>}

\* main after start_app_backend and the construction of the UiManager
AppInit ==
    /\ file = [len |-> 0, bytes |-> <<>>]
    /\ foreign_keys = FALSE
    /\ store \in InitialSaves
    /\ pc = "ui"
    /\ save_file = NoSave
    /\ local = [app_state |-> SaveSelectionState(store), poisoned |-> FALSE,
                ui_state |-> SaveSelection_new(store),
                event_rx |-> <<>>, event_tx |-> TRUE,
                terminate_rx |-> 0, terminate_tx |-> TRUE,
                backend |-> "loop"]
    /\ op = [step |-> "none"]
    /\ result = "none"
    /\ trace = <<>>
    /\ pre = [sent |-> <<>>]
    /\ commands = 0

\* the main thread panics: unwinding drops both Senders
MainPanics ==
    /\ pc' = "panicked"
    /\ local' = [local EXCEPT !.event_tx = FALSE, !.terminate_tx = FALSE]
    /\ UNCHANGED <<store, trace, pre>>

\* one iteration of UiManager::run_context that does not leave the loop:
\* poll_keyboard, update_ui_state, handle_key, draw
UiLoop(key, fsio) ==
    /\ pc = "ui"
    /\ key # "None" => commands < MaxKeys
    /\ commands' = IF key = "None" THEN commands ELSE commands + 1
    /\ op' = [step |-> "ui", key |-> key]
    /\ LET updated == update_ui_state(local.app_state, local.ui_state)
           keyed == handle_key(updated.ui_state, key, fsio)
       IN  IF local.poisoned \/ updated.panic \/ keyed.panic
           THEN MainPanics
           ELSE /\ local' = [local EXCEPT
                                !.ui_state = keyed.ui_state,
                                !.event_rx = IF local.backend = "loop"
                                             THEN @ \o keyed.sent ELSE @]
                /\ pre' = [pre EXCEPT !.sent = @ \o keyed.sent]
                /\ UNCHANGED <<store, pc, trace>>
    /\ UNCHANGED <<file, foreign_keys, save_file, result>>

\* the iteration that leaves the loop, on Esc, Ctrl-C or a terminal error:
\* run_app_ui returns and its Sender<AppEvent> is dropped
UiExit ==
    /\ pc = "ui"
    /\ pc' = "quit"
    /\ op' = [step |-> "ui_exit", key |-> "Esc"]
    /\ local' = [local EXCEPT !.event_tx = FALSE]
    /\ UNCHANGED <<file, foreign_keys, store, save_file, result, trace, pre,
                   commands>>

\* BackendHandle::quit up to join: terminate_sender.send(()), which fails
\* when the worker has dropped the Receiver
QuitSend ==
    /\ pc = "quit"
    /\ pc' = "join"
    /\ op' = [step |-> "quit_send", key |-> "None"]
    /\ local' = [local EXCEPT !.terminate_rx =
                                  IF local.backend = "loop" THEN @ + 1 ELSE @]
    /\ UNCHANGED <<file, foreign_keys, store, save_file, result, trace, pre,
                   commands>>

\* thread_handle.join() returns, and with it quit
QuitJoin ==
    /\ pc = "join"
    /\ local.backend # "loop"
    /\ pc' = "returned"
    /\ op' = [step |-> "quit_join", key |-> "None"]
    /\ local' = [local EXCEPT !.terminate_tx = FALSE]
    /\ UNCHANGED <<file, foreign_keys, store, save_file, result, trace, pre,
                   commands>>

\* one iteration of the loop of backend_context.  overrun is whether the
\* iteration took longer than BACKEND_SLEEP_TIME_MILLIS, in which case the
\* Duration subtraction panics
BackendLoop(dbio, overrun) ==
    /\ local.backend = "loop"
    /\ UNCHANGED <<file, foreign_keys, pc, save_file, result, pre, commands>>
    /\ IF local.terminate_rx > 0
       THEN /\ op' = [step |-> "terminate", key |-> "None"]
            /\ local' = [local EXCEPT !.backend = "exited", !.terminate_rx = 0,
                                      !.event_rx = <<>>]
            /\ UNCHANGED <<store, trace>>
       ELSE IF ~local.terminate_tx
       THEN /\ op' = [step |-> "terminate_disconnected", key |-> "None"]
            /\ local' = [local EXCEPT !.backend = "exited", !.event_rx = <<>>]
            /\ UNCHANGED <<store, trace>>
       ELSE IF local.event_rx # <<>>
       THEN LET events == events_of_iteration(local.event_rx)
                h == handle_events(local.app_state, store, events, dbio)
            IN  /\ op' = [step |-> "event", key |-> "None", dbio |-> dbio]
                /\ trace' = trace \o events
                /\ store' = h.saves
                /\ local' = [local EXCEPT
                                !.app_state = h.app_state,
                                !.poisoned = h.panic,
                                !.event_rx = IF h.panic \/ overrun THEN <<>>
                                             ELSE SubSeq(@, Len(events) + 1, Len(@)),
                                !.backend = IF h.panic \/ overrun THEN "panicked"
                                            ELSE "loop"]
       ELSE IF ~local.event_tx
       THEN /\ op' = [step |-> "event_disconnected", key |-> "None"]
            /\ local' = [local EXCEPT !.backend = "exited"]
            /\ UNCHANGED <<store, trace>>
       ELSE /\ op' = [step |-> "idle", key |-> "None"]
            /\ local' = [local EXCEPT !.backend = IF overrun THEN "panicked"
                                                  ELSE "loop"]
            /\ UNCHANGED <<store, trace>>

AppNext ==
    \/ \E key \in Keys, fsio \in BOOLEAN : UiLoop(key, fsio)
    \/ UiExit
    \/ QuitSend
    \/ QuitJoin
    \/ \E dbio \in BOOLEAN, overrun \in BOOLEAN : BackendLoop(dbio, overrun)

AppSpec == AppInit /\ [][AppNext]_vars

\* the threads are scheduled: the worker's sleep is bounded, and the main
\* thread goes on from the return of run_app_ui to the end of quit
AppLiveSpec ==
    /\ AppSpec
    /\ WF_vars(\E dbio \in BOOLEAN, overrun \in BOOLEAN : BackendLoop(dbio, overrun))
    /\ WF_vars(QuitSend)
    /\ WF_vars(QuitJoin)

(***************************************************************************)
(* What is observed of a run: the two durable containers.                  *)
(***************************************************************************)
\* the 80 bytes at a box position of the save on disk; <<>> when the file
\* is not a save that opens
DiskSlot(f, s) ==
    LET opened == SaveFile_new(f)
        loc == compute_section_id_and_offset_for_box_slot(s[1], s[2])
    IN  IF opened.ok THEN read_box_slot(opened.save, loc.section_id, loc.offset)
        ELSE <<>>

\* personality value and trainer id, the first eight bytes of a record
Identity(pk3_data) ==
    SubSeq(pk3_data, 1, 8)

InSave(c, f) ==
    \E s \in Slots :
        LET d == DiskSlot(f, s)
        IN  Len(d) = PK3_SIZE_BOX /\ Identity(d) = Identity(c)

InStore(c, st) ==
    \E id \in DOMAIN st.monsters : Identity(st.monsters[id].data) = Identity(c)

\* the creature a running command holds between its two durable steps
InTransit ==
    IF pc = "deposit_insert" THEN to_pk3(local.pokemon) ELSE local.pkmn_data.data

Last(t) ==
    t[Len(t)]

SourceSlot == <<op.box_number, op.box_position>>

\* a deposit begins and returns in this step / a withdraw begins
DepositBegins ==
    pc = "idle" /\ commands' = commands + 1 /\ op'.cmd = "deposit"

WithdrawBegins ==
    pc = "idle" /\ commands' = commands + 1 /\ op'.cmd = "withdraw"

\* C1: no creature identity (OT, P) is at once in a box slot of the save on
\* disk and in a row of the roam store, in any state of any run of deposits
\* and withdraws, failed and compensated ones included.
AtMostOneHome ==
    \A c \in Creatures : ~(InSave(c, file) /\ InStore(c, store))

\* a deposit has moved Pikachu from the save into the store
AtMostOneHomeWitness ==
    /\ trace = <<"save_write_ok", "store_insert_ok">>
    /\ InStore(Pikachu, store)
    /\ ~InSave(Pikachu, file)

\* C2: when the process crashes between the two durable steps of a deposit
\* or a withdraw, the creature in transit is in the save on disk or in the
\* store.
CrashKeepsCreature ==
    [][(pc # "idle" /\ result' = "Crash" /\ pc' = "idle")
         => (InSave(InTransit, file') \/ InStore(InTransit, store'))]_vars

\* C3: a withdraw that returns success has stored the creature's 80 bytes at
\* the destination of the save on disk and removed its row from the store.
WithdrawSuccessStoresCreature ==
    [][(pc = "withdraw_put" /\ pc' = "idle" /\ result' = "Ok")
         => /\ DiskSlot(file', SourceSlot) = local.pkmn_data.data
            /\ op.monster_id \notin DOMAIN store'.monsters]_vars

\* C4: a deposit whose save write and store insert both succeed leaves the
\* source slot of the save on disk all zero, adds exactly one monster row,
\* whose data is the 80 bytes the slot held, leaves the other rows alone, and
\* gives the new row the box entry (dest_box, dest_pos).
DepositSuccess ==
    [][(pc = "deposit_insert" /\ pc' = "idle" /\ Last(trace') = "store_insert_ok")
         => LET blob == DiskSlot(pre.file, SourceSlot)
                new == DOMAIN store'.monsters \ DOMAIN store.monsters
            IN  /\ result' = "Ok"
                /\ DiskSlot(file', SourceSlot) = Zeros(PK3_SIZE_BOX)
                /\ Cardinality(new) = 1
                /\ \A id \in new :
                       /\ store'.monsters[id].data = blob
                       /\ [box_number |-> op.dest.box_number,
                           box_position |-> op.dest.box_position,
                           monster_id |-> id] \in store'.box_entries
                /\ \A id \in DOMAIN store.monsters :
                       /\ id \in DOMAIN store'.monsters
                       /\ store'.monsters[id] = store.monsters[id]
                /\ Cardinality(store'.box_entries) = Cardinality(store.box_entries) + 1]_vars

\* a deposit has gone through both of its steps
DepositSuccessWitness ==
    /\ op.cmd = "deposit"
    /\ result = "Ok"
    /\ pc = "idle"
    /\ Last(trace) = "store_insert_ok"

\* C5: a withdraw whose destination slot holds a creature returns an error,
\* and neither the store nor the save file changes.
OccupiedDestinationRefused ==
    [][(WithdrawBegins
          /\ DiskSlot(file, <<op'.box_number, op'.box_position>>) \in Creatures)
         => (pc' = "idle" /\ result' = "Err" /\ store' = store /\ file' = file)]_vars

\* a withdraw of a monster the store holds was refused for its destination
OccupiedDestinationWitness ==
    /\ op.cmd = "withdraw"
    /\ op.monster_id \in DOMAIN store.monsters
    /\ trace = <<"get_Some">>
    /\ result = "Err"

\* C6: when put_pokemon_in_box or write_in_place fails after withdraw_mon
\* has deleted the creature, the withdraw ends with the creature in the
\* store again.
WithdrawCompensates ==
    [][(pc = "withdraw_put" /\ pc' = "idle"
          /\ Last(trace') \in {"put_err", "save_write_fail_open", "save_write_fail_torn"})
         => InStore(local.pkmn_data.data, store')]_vars

\* C7: when the save write of a deposit fails, the deposit ends there and
\* the store is as it was: no monster row, no box entry is inserted.
FailedSaveWriteAborts ==
    [][(DepositBegins
          /\ trace' \in {<<"save_write_fail_open">>, <<"save_write_fail_torn">>})
         => (pc' = "idle" /\ store' = store)]_vars

\* a deposit has ended at its failed save write
FailedSaveWriteWitness ==
    /\ op.cmd = "deposit"
    /\ pc = "idle"
    /\ trace = <<"save_write_fail_open">>

\* the compensation of a failed store insert has rewritten the save
DepositRestored ==
    /\ pc = "deposit_insert"
    /\ pc' = "idle"
    /\ trace' = <<"save_write_ok", "store_insert_err", "save_rewrite_ok">>

\* C8 as claimed: after a failed store insert and the rewrite of the save,
\* the save on disk is what it was before the deposit's first write and the
\* store has no row for the creature.
DepositRestoresSave ==
    [][DepositRestored
         => (file' = pre.file /\ ~InStore(InTransit, store'))]_vars

\* C8, amended: after a failed store insert and the rewrite of the save,
\* every box slot of the save on disk holds what it held before the
\* deposit, the store is unchanged and has no row for the creature, and the
\* save on disk is the save from before the deposit with the four dex bits
\* of the creature's species set and its checksums recomputed.
DepositRestoresSlots ==
    [][DepositRestored
         => LET before == SaveFile_new(pre.file).save
                marked == mark_pokemon_owned_in_dex(before, local.pokemon.species).save
            IN  /\ \A s \in Slots : DiskSlot(file', s) = DiskSlot(pre.file, s)
                /\ store' = pre.store
                /\ ~InStore(InTransit, store')
                /\ file' = [len |-> before.len,
                            bytes |-> recompute_checksums(marked).full_contents]]_vars

\* the egg's deposit was compensated: the egg is in its slot again
DepositRestoresSlotsWitness ==
    /\ op.cmd = "deposit"
    /\ trace = <<"save_write_ok", "store_insert_err", "save_rewrite_ok">>
    /\ DiskSlot(file, SourceSlot) = Charmander

\* C9: a deposit returns success only when the creature was moved into the
\* store; an empty source slot, a failed save write and a failed store
\* insert make it return an error.
DepositFailuresSurface ==
    (op.cmd = "deposit" /\ pc = "idle" /\ result = "Ok")
        => Last(trace) = "store_insert_ok"

\* C10: put_pokemon_in_box with force = false on a slot whose 80 bytes are
\* not all zero returns false and leaves the whole save image in memory as it
\* was: slot bytes, dex bits and checksums.
UnforcedPutOnOccupiedSlotChangesNothing ==
    [][(pc = "open" /\ commands' = commands + 1 /\ op'.cmd = "put" /\ ~op'.force
          /\ LET loc == compute_section_id_and_offset_for_box_slot(
                            op'.box_number, op'.slot_number)
             IN  read_box_slot(save_file, loc.section_id, loc.offset)
                     # Zeros(PK3_SIZE_BOX))
         => (result' = "false" /\ save_file' = save_file)]_vars

(***************************************************************************)
(* Claims about the SaveFile API, checked under ApiSpec.                   *)
(***************************************************************************)
\* the 80 bytes of the slot itself, both pieces of a straddling slot
OwnBytes(save, box_number, slot_number) ==
    LET loc == compute_section_id_and_offset_for_box_slot(box_number, slot_number)
    IN  read_box_slot(save, loc.section_id, loc.offset)

ApiCalled(cmd) == pc = "open" /\ pc' = "called" /\ op'.cmd = cmd

InBoxRange(box_number, slot_number) ==
    box_number \in 1..14 /\ slot_number \in 1..30

\* C11: put_pokemon_in_box with force = false refuses (returns false) exactly
\* when one of the slot's own 80 bytes, both pieces of a straddling slot, is
\* not zero; the bytes of other slots have no influence.
UnforcedPutRefusesExactlyOccupied ==
    [][(ApiCalled("put") /\ ~op'.force
          /\ InBoxRange(op'.box_number, op'.slot_number)
          /\ result' \in {"true", "false"})
         => (result' = "false"
               <=> OwnBytes(save_file, op'.box_number, op'.slot_number)
                       # Zeros(PK3_SIZE_BOX))]_vars

\* C12: under every rotation 0..13, put_pokemon_in_box(box, slot, B, true)
\* with box in 1..14 and slot in 1..30, straddling or not, succeeds; the 80
\* bytes then read back for (box, slot) are B and the bytes of every other
\* box slot are what they were.
ForcedPutRoundTrip ==
    [][(ApiCalled("put") /\ op'.force
          /\ InBoxRange(op'.box_number, op'.slot_number))
         => /\ result' = "true"
            /\ OwnBytes(save_file', op'.box_number, op'.slot_number) = op'.pk3_data
            /\ \A box_number \in 1..14, slot_number \in 1..30 :
                   <<box_number, slot_number>> # <<op'.box_number, op'.slot_number>>
                       => OwnBytes(save_file', box_number, slot_number)
                              = OwnBytes(save_file, box_number, slot_number)]_vars

\* a straddling slot whose two sections are not adjacent in the file
\* (rotation 8 puts section 5 last and section 6 first) reads back what a
\* forced put wrote over it
ForcedPutRoundTripWitness ==
    /\ pc = "called" /\ op.cmd = "put" /\ op.force
    /\ op.box_number = 2 /\ op.slot_number = 20
    /\ save_file.section_rotation = 8
    /\ result = "true"
    /\ OwnBytes(save_file, 2, 20) = op.pk3_data

\* C13: get_pokemon_from_box, take_pokemon_from_box and put_pokemon_in_box
\* called with a box outside 1..14 or a slot outside 1..30 fail with an
\* error and leave the save image as it was; boxes 15 and 16 are rejected.
OutOfRangeRejected ==
    [][(pc = "open" /\ pc' = "called" /\ op'.cmd \in {"get", "take", "put"}
          /\ ~InBoxRange(op'.box_number, op'.slot_number))
         => (result' = "Err" /\ save_file' = save_file)]_vars

\* the two bytes of a section's checksum field, in the current slot of save
IsChecksumByte(save, o) ==
    /\ o >= save.latest_save_offset
    /\ o < save.latest_save_offset + NUMBER_OF_SECTIONS * SECTION_SIZE
    /\ (o - save.latest_save_offset) % SECTION_SIZE
           \in {SECTION_CHECKSUM_OFFSET, SECTION_CHECKSUM_OFFSET + 1}

\* C14: opening a save and writing it gives a file of the same length that
\* equals the opened one at every byte except the 14 checksum fields of the
\* current slot; each of these holds the checksum computed over its section,
\* so that verify_sections succeeds on the written file; the other slot and
\* the region behind the two slots are preserved.
WriteRoundTrip ==
    [][(ApiCalled("write") /\ op'.io = "ok")
         => /\ result' = "Ok"
            /\ file'.len = file.len
            /\ \A o \in DOMAIN file.bytes \cup DOMAIN file'.bytes :
                   At(file'.bytes, o) # At(file.bytes, o) => IsChecksumByte(save_file, o)
            /\ \A section_id \in 0..(NUMBER_OF_SECTIONS - 1) :
                   LET section_offset == get_offset_for_section(save_file, section_id)
                   IN  compute_section_checksum(file.bytes, section_offset)
                         = U16LE(Slice(file'.bytes,
                                       section_offset + SECTION_CHECKSUM_OFFSET, 2), 1)
            /\ verify_sections(SaveFile_new(file').save)]_vars

\* the save opened with stale checksums (slot A current, rotation 9) has
\* been written: the file verifies and still holds the other slot's save
\* index and the byte behind the two slots
WriteRoundTripWitness ==
    /\ pc = "called" /\ op.cmd = "write" /\ op.io = "ok" /\ result = "Ok"
    /\ save_file.latest_save_offset = SAVE_A_OFFSET
    /\ save_file.section_rotation = 9
    /\ file.bytes = save_file.full_contents
    /\ file.bytes # StaleSave(SAVE_A_OFFSET, 9, "Emerald").bytes
    /\ verify_sections(SaveFile_new(file).save)
    /\ At(file.bytes, SAVE_B_OFFSET + SAVE_INDEX_OFFSET) = 1
    /\ At(file.bytes, 2 * SAVE_B_OFFSET + 5) = 170

\* C15: a write is atomic: when it ends, with success or with an error, the
\* file holds either all of its old content or all of the new image, never
\* a truncated or partly written one.
WriteIsAtomic ==
    [][ApiCalled("write")
         => \/ file' = file
            \/ file' = [len |-> save_file'.len, bytes |-> save_file'.full_contents]]_vars

(***************************************************************************)
(* Claims about the pure functions, checked under PureSpec.                *)
(***************************************************************************)
\* C16: for every pair of save indices (A, B), slot A is current exactly when
\* A is not 0xFFFFFFFF and (B is 0xFFFFFFFF or A > B), otherwise slot B: an
\* empty slot is never preferred over a non-empty one, equal indices select
\* B, and two empty slots select B.
CurrentSlotSelection ==
    (pc = "done" /\ op.cmd = "determine_latest_game_save_offset")
        => LET a == local.a
               b == local.b
               empty == <<65535, 65535>>
               greater == a[1] > b[1] \/ (a[1] = b[1] /\ a[2] > b[2])
           IN  /\ local.offset \in {SAVE_A_OFFSET, SAVE_B_OFFSET}
               /\ local.offset = SAVE_A_OFFSET
                      <=> (a # empty /\ (b = empty \/ greater))
               /\ (a = empty /\ b # empty) => local.offset = SAVE_B_OFFSET
               /\ (b = empty /\ a # empty) => local.offset = SAVE_A_OFFSET
               /\ a = b => local.offset = SAVE_B_OFFSET

\* both branches happen with indices beyond 16 bits: A = 0x80000000 wins
\* over B = 0x0000FFFF
CurrentSlotSelectionWitness ==
    /\ pc = "done" /\ op.cmd = "determine_latest_game_save_offset"
    /\ local.a = <<32768, 0>> /\ local.b = <<0, 65535>>
    /\ local.offset = SAVE_A_OFFSET

\* C17: encoding the creature decoded from an 80- or 100-byte record gives
\* the record back; encrypt_decrypt_pk3 applied twice is the identity, and
\* it changes neither the length, the 32-byte header (hence the key), nor
\* bytes 80..100 of a party record.
CodecRoundTrip ==
    (pc = "done" /\ op.cmd = "from_pk3")
        => /\ result = "Ok" => local.encoded = local.pk3
           /\ local.twice = local.pk3
           /\ Len(local.once) = Len(local.pk3)
           /\ \A i \in 1..Len(local.pk3) :
                  (i <= SUBSTRUCTURE_OFFSET \/ i > PK3_SIZE_BOX)
                      => local.once[i] = local.pk3[i]

\* a party record with a key none of whose bytes is zero and with a tail
\* that is not zero decodes, is changed by the XOR, and is encoded back
CodecRoundTripWitness ==
    /\ pc = "done" /\ op.cmd = "from_pk3" /\ result = "Ok"
    /\ Len(local.pk3) = PK3_SIZE_PARTY
    /\ \A j \in 1..4 : local.pk3[j] # local.pk3[4 + j]
    /\ \E i \in (PK3_SIZE_BOX + 1)..PK3_SIZE_PARTY : local.pk3[i] # 0
    /\ \A i \in (SUBSTRUCTURE_OFFSET + 1)..PK3_SIZE_BOX : local.once[i] # local.pk3[i]
    /\ local.encoded = local.pk3

\* the offsets of the bytes of the four dex bitmaps that hold a bit, the
\* byte_number-th of each:
\* owned and seen-A in logical section 0, seen-B in logical section 1,
\* seen-C in logical section 4, located through the rotation
DexBytes(save, byte_number) ==
    {get_offset_for_section(save, 0) + pokedex_owned(save.game_code) + byte_number,
     get_offset_for_section(save, 0) + pokedex_seen_a(save.game_code) + byte_number,
     get_offset_for_section(save, 1) + pokedex_seen_b(save.game_code) + byte_number,
     get_offset_for_section(save, 4) + pokedex_seen_c(save.game_code) + byte_number}

\* the offsets of logical sections 0, 1 and 4 that hold a byte in m
DexSectionBytes(save, m) ==
    {o \in DOMAIN m :
        \E section_id \in {0, 1, 4} :
            /\ o >= get_offset_for_section(save, section_id)
            /\ o < get_offset_for_section(save, section_id) + SECTION_SIZE}

\* C18: every put_pokemon_in_box that writes a record of a creature of
\* species s sets bit (s - 1) in the four dex bitmaps (owned and seen-A in
\* logical section 0, seen-B in section 1, seen-C in section 4, at the
\* offsets of the game code, through the rotation) and changes no other bit
\* of these three sections.
DexMarking ==
    [][(ApiCalled("put") /\ result' = "true" /\ from_pk3(op'.pk3_data).ok
          /\ national_dex_number(from_pk3(op'.pk3_data).species).ok)
         => LET s == national_dex_number(from_pk3(op'.pk3_data).species).n
                dex == DexBytes(save_file, (s - 1) \div 8)
                old == save_file.full_contents
                new == save_file'.full_contents
            IN  /\ \A o \in dex : At(new, o) = OrBit(At(old, o), (s - 1) % 8)
                /\ \A o \in DexSectionBytes(save_file, old)
                              \cup DexSectionBytes(save_file, new) :
                       o \notin dex => At(new, o) = At(old, o)]_vars

\* C19: get_party neither reads nor returns more than 6 records: a team size
\* above 6 in logical section 1 is clamped to 6.
PartyAtMostSix ==
    (pc = "called" /\ op.cmd = "party")
        => (local.read <= 6 /\ Len(local.party) <= 6)

\* the offsets of the 80 bytes of a box slot, both pieces of a straddling one
SlotOffsets(save, box_number, slot_number) ==
    LET loc == compute_section_id_and_offset_for_box_slot(box_number, slot_number)
        section_offset == get_offset_for_section(save, loc.section_id)
        next_offset == get_offset_for_section(save,
                           (loc.section_id + 1) % NUMBER_OF_SECTIONS)
        bytes_from_first_section == SECTION_DATA_SIZE - loc.offset
    IN  IF loc.offset + PK3_SIZE_BOX > SECTION_DATA_SIZE
        THEN (section_offset + loc.offset)..(section_offset + SECTION_DATA_SIZE - 1)
             \cup next_offset..(next_offset + PK3_SIZE_BOX - bytes_from_first_section - 1)
        ELSE (section_offset + loc.offset)..(section_offset + loc.offset + PK3_SIZE_BOX - 1)

\* C20: take_pokemon_from_box on an occupied slot of boxes 1..14 returns the
\* creature decoded from the 80 bytes the slot held, leaves the 80 bytes
\* zero so that get_pokemon_from_box returns None, changes no other byte
\* but checksum fields of the current slot, and leaves every section
\* checksum valid: verify_sections succeeds on the image in memory.
TakeClearsSlot ==
    [][(ApiCalled("take") /\ InBoxRange(op'.box_number, op'.slot_number)
          /\ OwnBytes(save_file, op'.box_number, op'.slot_number) # Zeros(PK3_SIZE_BOX)
          /\ from_pk3(OwnBytes(save_file, op'.box_number, op'.slot_number)).ok)
         => /\ result' = "Some"
            /\ local' = from_pk3(OwnBytes(save_file, op'.box_number, op'.slot_number))
            /\ OwnBytes(save_file', op'.box_number, op'.slot_number) = Zeros(PK3_SIZE_BOX)
            /\ get_pokemon_from_box(save_file', op'.box_number, op'.slot_number).kind
                   = "None"
            /\ \A o \in DOMAIN save_file.full_contents \cup DOMAIN save_file'.full_contents :
                   At(save_file'.full_contents, o) # At(save_file.full_contents, o)
                       => \/ o \in SlotOffsets(save_file, op'.box_number, op'.slot_number)
                          \/ IsChecksumByte(save_file, o)
            /\ save_file'.len = save_file.len
            /\ verify_sections(save_file')]_vars

\* Magikarp has been taken from the straddling slot (4, 10) of the save
\* whose rotation 7 puts the slot's two sections at the two ends of the file
TakeClearsSlotWitness ==
    /\ pc = "called" /\ op.cmd = "take"
    /\ op.box_number = 4 /\ op.slot_number = 10
    /\ save_file.section_rotation = 7
    /\ result = "Some"
    /\ local = from_pk3(Magikarp)
    /\ OwnBytes(save_file, 4, 10) = Zeros(PK3_SIZE_BOX)
    /\ verify_sections(save_file)

(***************************************************************************)
(* Claims about the roam store, checked under StoreSpec.                   *)
(***************************************************************************)
StoreCalled(cmd) == pc = "store" /\ commands' = commands + 1 /\ op'.cmd = cmd

\* the monsters rows whose box entry is at location
MonstersAt(st, location) ==
    {e.monster_id : e \in {x \in st.box_entries :
                              /\ x.box_number = location.box_number
                              /\ x.box_position = location.box_position
                              /\ x.monster_id \in DOMAIN st.monsters}}

\* C21: insert_new_mon on a location that holds a monster fails and leaves
\* the store as it was, no monsters row without a box entry included; after
\* any sequence of inserts and withdraws no two monsters share a location
\* and every monsters row has exactly one box entry.
DepositLocationExclusive ==
    [][/\ (StoreCalled("insert_new_mon") /\ MonstersAt(store, op'.location) # {})
            => (result' = "Err" /\ store' = store)
       /\ \A location \in StoreLocations : Cardinality(MonstersAt(store', location)) <= 1
       /\ \A id \in DOMAIN store'.monsters :
              Cardinality({e \in store'.box_entries : e.monster_id = id}) = 1]_vars

\* an insert into the location of monster 1 has been refused while the
\* engine itself worked: the store holds monster 1 and nothing else
DepositLocationExclusiveWitness ==
    /\ pc = "store" /\ op.cmd = "insert_new_mon" /\ result = "Err"
    /\ MonstersAt(store, op.location) = {1}
    /\ DOMAIN store.monsters = {1}
    /\ store.monsters[1] # op.mon
    /\ Cardinality(store.box_entries) = 1

\* C22: a withdraw_mon that succeeds returns the monster's row and box
\* location and has removed the monsters row and its box entry, so that an
\* insert_new_mon into the freed location succeeds; a withdraw_mon of an id
\* without monsters row or without box entry fails; a failed withdraw_mon
\* leaves the store as it was.
WithdrawRemovesRowAndEntry ==
    [][StoreCalled("withdraw_mon")
         => /\ result' = "Ok"
                => /\ op'.id \in DOMAIN store.monsters
                   /\ local'.monster = store.monsters[op'.id]
                   /\ [box_number |-> local'.location.box_number,
                       box_position |-> local'.location.box_position,
                       monster_id |-> op'.id] \in store.box_entries
                   /\ op'.id \notin DOMAIN store'.monsters
                   /\ \A e \in store'.box_entries : e.monster_id # op'.id
                   /\ insert_new_mon(store', local'.monster, local'.location, TRUE).ok
            /\ (\/ op'.id \notin DOMAIN store.monsters
                \/ \A e \in store.box_entries : e.monster_id # op'.id)
                => result' = "Err"
            /\ result' = "Err" => store' = store]_vars

(***************************************************************************)
(* C23.  The schema version is written only on full success.  Opening a    *)
(* store at version v with 1 <= v < current starts the migrations from v   *)
(* in ascending order, one version at a time; afterwards user_version is   *)
(* either v or current; it is current only when every migration from v to  *)
(* current - 1 was applied and the call returned Ok, and it is v when a    *)
(* step failed.  No opening lowers user_version, and a store of a version  *)
(* above the known one is left exactly as it was.                          *)
(***************************************************************************)
SchemaVersionOnFullSuccess ==
    [][op'.cmd = "new" =>
         LET v == store.user_version
         IN  /\ store'.user_version >= v
             /\ v > CURRENT_DATABASE_SCHEMA_VERSION => store' = store
             /\ v \in 1..(CURRENT_DATABASE_SCHEMA_VERSION - 1) =>
                    /\ \A i \in 1..Len(trace') : trace'[i] = v + i - 1
                    /\ store'.user_version \in {v, CURRENT_DATABASE_SCHEMA_VERSION}
                    /\ store'.user_version = CURRENT_DATABASE_SCHEMA_VERSION =>
                           /\ result' = "Ok"
                           /\ Len(trace') = CURRENT_DATABASE_SCHEMA_VERSION - v
                           /\ store'.tables
                                  = SchemaOf(CURRENT_DATABASE_SCHEMA_VERSION)
                           /\ store'.saves = store.saves
                    /\ op'.fail \in {StepFailure(k) :
                                       k \in v..(CURRENT_DATABASE_SCHEMA_VERSION - 1)}
                           => store'.user_version = v]_vars

\* a store of version 1 was migrated through every step to the current version
SchemaVersionOnFullSuccessWitness ==
    /\ op.cmd = "new"
    /\ result = "Ok"
    /\ local.user_version = 1
    /\ trace = <<1, 2, 3>>
    /\ store.user_version = CURRENT_DATABASE_SCHEMA_VERSION

(***************************************************************************)
(* C26.  A migration over several steps is one transaction.  When opening  *)
(* the store returns an error, a failure of step k of a migration          *)
(* included, the store is exactly as it was before: the schema changes of  *)
(* the steps before k are rolled back together with those of step k.       *)
(***************************************************************************)
MigrationIsOneTransaction ==
    [][op'.cmd = "new" /\ result' = "Err" => store' = store]_vars

\* the migration of a version 1 store failed at its third step, after two
\* steps had been applied inside the transaction
MigrationIsOneTransactionWitness ==
    /\ op.cmd = "new"
    /\ op.fail = "step3"
    /\ local.user_version = 1
    /\ trace = <<1, 2, 3>>
    /\ result = "Err"
    /\ store = local

\* the statement as first made: the steps before the failing one stay
\* committed
PerMigrationTransactions ==
    [][/\ op'.cmd = "new"
       /\ store.user_version \in 1..(CURRENT_DATABASE_SCHEMA_VERSION - 1)
       /\ \E k \in (store.user_version + 1)..(CURRENT_DATABASE_SCHEMA_VERSION - 1) :
              op'.fail = StepFailure(k)
       => \E k \in (store.user_version + 1)..(CURRENT_DATABASE_SCHEMA_VERSION - 1) :
              /\ op'.fail = StepFailure(k)
              /\ store'.tables = SchemaOf(k)]_vars

(***************************************************************************)
(* C24.  list-mons with a save id lists the party and every one of the 14  *)
(* boxes: when the command succeeds, each occupied slot of boxes 1..14 has *)
(* its row in the table, and so has each party member.                     *)
(***************************************************************************)
ListMonsCoversAllBoxes ==
    [][op'.cmd = "list_mons" /\ result' = "Ok" =>
         LET save == SaveFile_new(file).save
             rows == {local'.box_rows[i] : i \in 1..Len(local'.box_rows)}
         IN  /\ \A box_number \in 1..14, slot \in 1..30 :
                    LET got == get_pokemon_from_box(save, box_number, slot)
                    IN  got.kind = "Some" =>
                            [box |-> box_number, slot |-> slot,
                             species |-> got.pokemon.species] \in rows
             /\ Len(local'.party_rows) = Len(get_party(save).party)
             /\ \A idx \in 1..Len(local'.party_rows) :
                    local'.party_rows[idx].slot = idx]_vars

(***************************************************************************)
(* C25.  The rotation mapping.  In a save whose current slot carries a     *)
(* rotation of the ids 0..13, the offset returned for logical section l    *)
(* is the start of one of the 14 physical sections of the current slot and *)
(* that section's trailer carries id l; over l in 0..13 the offsets are    *)
(* pairwise different and cover all 14 physical sections of the slot.      *)
(***************************************************************************)
RotationIsBijection ==
    [][op'.cmd = "get_offset_for_section" =>
         LET slot_offset == determine_latest_game_save_offset(file.bytes)
             physical == {slot_offset + k * SECTION_SIZE :
                            k \in 0..(NUMBER_OF_SECTIONS - 1)}
             offsetOf(l) == SectionOffset(op'.crate, file, l)
         IN  /\ local'.offset \in physical
             /\ At(file.bytes, local'.offset + SECTION_ID_OFFSET) = op'.section_id
             /\ At(file.bytes, local'.offset + SECTION_ID_OFFSET + 1) = 0
             /\ \A l1, l2 \in 0..(NUMBER_OF_SECTIONS - 1) :
                    offsetOf(l1) = offsetOf(l2) => l1 = l2
             /\ {offsetOf(l) : l \in 0..(NUMBER_OF_SECTIONS - 1)} = physical]_vars

(***************************************************************************)
(* C27.  The steps of the transfer handlers keep their order.  A deposit   *)
(* attempts the store insert only after its write of the save succeeded,   *)
(* with the creature gone from the source slot of the save on disk, and    *)
(* the step that takes and writes does not touch the store.  A withdraw    *)
(* changes the save on disk only after its store delete was committed, and *)
(* it deletes only after it found the destination slot empty.              *)
(***************************************************************************)
StoreInsertAttempted(t) ==
    \E i \in 1..Len(t) : t[i] \in {"store_insert_ok", "store_insert_err"}

StrictStepOrder ==
    [][/\ (op'.cmd = "deposit" /\ DepositBegins) => store' = store
       /\ (op'.cmd = "deposit" /\ ~StoreInsertAttempted(trace)
             /\ (StoreInsertAttempted(trace') \/ store' # store)) =>
              /\ trace = <<"save_write_ok">>
              /\ get_pokemon_from_box(SaveFile_new(file).save, op.box_number,
                                      op.box_position).kind = "None"
       /\ (op'.cmd = "withdraw" /\ file' # file) =>
              /\ trace = <<"store_delete_ok">>
              /\ store' = store
              /\ op.monster_id \notin DOMAIN store.monsters
              /\ op.monster_id \in DOMAIN pre.store.monsters
              /\ file = pre.file
       /\ (op'.cmd = "withdraw" /\ store' # store) =>
              /\ WithdrawBegins
              /\ get_pokemon_from_box(SaveFile_new(file).save, op'.box_number,
                                      op'.box_position).kind = "None"
              /\ file' = file]_vars

\* a withdraw that deleted the store row and then wrote the creature into
\* the save
StrictStepOrderWitness ==
    /\ op.cmd = "withdraw"
    /\ trace = <<"store_delete_ok", "put_true", "save_write_ok">>
    /\ result = "Ok"

(***************************************************************************)
(* C28.  Backend shutdown.  Once a terminate message is queued, or the     *)
(* Sender of either channel is gone, the worker eventually is out of its   *)
(* loop, and once run_app_ui has returned, quit eventually returns, with   *)
(* events still queued or not.  One loop iteration passes at most one      *)
(* event to handle_event; the events handled are, in order, the first of   *)
(* the events sent; the iteration that observes the terminate message      *)
(* handles no event, and none is handled after the worker left the loop.   *)
(***************************************************************************)
BackendShutdown ==
    /\ (local.terminate_rx > 0 \/ ~local.terminate_tx \/ ~local.event_tx)
           ~> (local.backend # "loop")
    /\ (pc = "quit") ~> (pc = "returned")
    /\ [][/\ Len(trace') <= Len(trace) + 1
          /\ Len(trace') <= Len(pre'.sent)
          /\ trace' = SubSeq(pre'.sent, 1, Len(trace'))
          /\ local.terminate_rx > 0 => trace' = trace
          /\ local.backend # "loop" => trace' = trace /\ local'.backend = local.backend
         ]_vars

\* quit has returned after the worker observed the terminate message with an
\* event handled and another one still queued
BackendShutdownWitness ==
    /\ pc = "returned"
    /\ local.backend = "exited"
    /\ Len(trace) >= 1
    /\ Len(pre.sent) > Len(trace)

(***************************************************************************)
(* C29.  Deleting a save.  When the worker handles RequestDeleteSave(id)   *)
(* in state SaveSelection(saves) and the database delete succeeds, the     *)
(* state becomes SaveSelection(saves') with saves' the entries of saves    *)
(* other than id, in their order; when the delete fails the state stays    *)
(* as it was.                                                              *)
(***************************************************************************)
DeleteSaveRemovesEntry ==
    [][(/\ op'.step = "event"
        /\ Len(trace') = Len(trace) + 1
        /\ Last(trace').name = "RequestDeleteSave"
        /\ local.app_state.kind = "SaveSelection") =>
           IF op'.dbio
           THEN local'.app_state =
                    SaveSelectionState(
                        FilterSeq(local.app_state.saves,
                                  {id \in 1..(NewSavePath + 1) :
                                      id # Last(trace').id}))
           ELSE local'.app_state = local.app_state]_vars

(***************************************************************************)
(* C30.  The worker survives events built from a stale snapshot.  Under    *)
(* every interleaving of UI iterations and worker iterations, each event   *)
(* the worker takes is applied or logged as unhandled: handle_event does   *)
(* not panic, also not for a SaveSelected whose id is not in the current   *)
(* SaveSelection list.                                                     *)
(***************************************************************************)
WorkerSurvivesStaleEvents ==
    [][op'.step = "event" => ~local'.poisoned]_vars

=============================================================================
